---------------------------- MODULE Spec2Model ----------------------------
(***************************************************************************)
(* Verification model of the ecosystem dashboard (MapComponent and the     *)
(* AnalysisHistoryModal): the WKT geometry conversion and the monthly      *)
(* aggregation of image records.                                           *)
(*                                                                         *)
(* JavaScript strings are sequences of one-character strings.  JavaScript  *)
(* numbers are records: a finite number is the normalised decimal m*10^e   *)
(* (m has no trailing zero, 0 is m = 0, e = 0), so record equality is      *)
(* numeric equality; NaN, the infinities and undefined are separate kinds. *)
(***************************************************************************)
EXTENDS Integers, Sequences, FiniteSets

VARIABLES
  geoKind,        \* which input the geometry scenario starts from: "text", "ring", "geojson"
  geoDone,        \* the operations applied so far
  wkt,            \* the text handed to parseWKTPolygon (ecosystem.location)
  wktItems,       \* how the initial text was written: its envelope and its items
  coords,         \* the result of parseWKTPolygon
  selectedPolygonCoords,   \* the ring handed to handleCreateNewAnalysisFromPolygon (<<>> for null)
  featureGroupRef,         \* the shared drawing feature group: mounted or not, and its layers
  drawnItemsCount,
  polygonDataForAnalysis,
  isAnalyzerModalOpen,
  geoJson,        \* the feature collection handed to convertToWKT
  wktLocation,    \* the result of convertToWKT
  selectedEcosystem,  \* the id of the ecosystem chosen in the selector, or null
  locationName,
  geocodedMarker,
  mapCenter,      \* the centre the map is moved to, or null
  center,         \* the result of getPolygonCenter
  historicalImages,  \* the records handed to AnalysisHistoryModal
  buckets,           \* monthlyAverages of src/unnamed/part_000
  bucketsTsx,        \* monthlyAverages of src/components/AnalysisHistoryModal.tsx
  aggDone,           \* the aggregation has run
  aggStep,           \* how far the render of the modal has come: 0 nothing, 1 monthlyAverages,
                     \* 2 trends, 3 the charts, 4 the table, 5 the CSV export clicked
  trendsView,        \* trends of src/unnamed/part_000
  trendsViewTsx,     \* trends of src/components/AnalysisHistoryModal.tsx
  chartView,         \* the bars src/unnamed/part_000 draws, in drawing order
  chartViewTsx,      \* chartData of src/components/AnalysisHistoryModal.tsx
  tableView,         \* the table rows of src/unnamed/part_000
  tableViewTsx,      \* the table rows of src/components/AnalysisHistoryModal.tsx
  csvFile,           \* the download exportToCSV of src/unnamed/part_000 starts
  csvFileTsx,        \* the download exportToCSV of src/components/AnalysisHistoryModal.tsx starts
  render,            \* per copy of the modal, the render in progress: the next statement of the
                     \* component body, whether monthlyAverages is initialized, what was read of
                     \* it before that, and how the render ended
  lowering,          \* what the build makes of const: kept ("const") or lowered to var ("var")
  ecosystems,        \* the ecosystems MapComponent has loaded
  activeModal,       \* 'history', 'imageDetail' or null (written "null")
  isAnalysisHistoryModalOpen,
  selectedEcosystemForHistory,
  selectedImage,
  isLoadingHistory,
  viewHistoryCalls,  \* the handleViewHistory calls waiting at await fetchAllImages(), oldest
                     \* first: the ecosystemId of each
  geocodeCalls,      \* the handleEcosystemSelect calls waiting at await geocodeLocationByName(),
                     \* oldest first: the ecosystem of each
  lastHandler,       \* the handler of MapComponent that ran last: its name, with ToAwait or
                     \* AfterAwait for the two parts of an asynchronous one
  removing,          \* the remove tool of the draw control has taken layers off the group
                     \* and the removal is not saved yet
  historicoEcosystems,  \* the ecosystems state of HistoricoPage
  historicoImages,      \* the images state of HistoricoPage
  loading,
  modalError,           \* the message, or "null"
  fetchData,         \* where fetchData of HistoricoPage stands: "notCalled", at "Promise.all",
                     \* at "ecoRes.json", at "imgRes.json", or "returned"
  ecoRes,            \* the fetch of API_ECOSYSTEMS: pending, rejected, or fulfilled with a response
  imgRes,            \* the fetch of API_IMAGES
  ecosystemData,     \* the constant of fetchData, once ecoRes.json() has given it
  timeouts,          \* the callbacks of setTimeout that have not run yet
  route              \* the page the router shows

selectVars == <<selectedEcosystem, locationName, geocodedMarker, mapCenter, center>>
geoVars == <<geoKind, geoDone, wkt, wktItems, coords, selectedPolygonCoords, featureGroupRef,
             drawnItemsCount, polygonDataForAnalysis, isAnalyzerModalOpen, geoJson, wktLocation, selectVars>>
viewVars == <<trendsView, trendsViewTsx, chartView, chartViewTsx, tableView, tableViewTsx, csvFile, csvFileTsx>>
renderVars == <<render, lowering>>
aggVars == <<historicalImages, buckets, bucketsTsx, aggDone, aggStep, viewVars, renderVars>>
modalVars == <<activeModal, isAnalysisHistoryModalOpen, selectedEcosystemForHistory, selectedImage,
               isLoadingHistory, viewHistoryCalls>>
mapPageVars == <<ecosystems, modalVars, geocodeCalls, lastHandler, removing>>
historicoVars == <<historicoEcosystems, historicoImages, loading, modalError, fetchData, ecoRes, imgRes, ecosystemData,
                   timeouts, route>>
pageVars == <<mapPageVars, historicoVars>>
vars == <<geoVars, aggVars, pageVars>>

\* ---------------------------------------------------------------- values

\* JavaScript null / a present value, for results typed T | null
null == [isNull |-> TRUE, val |-> <<>>]
Some(v) == [isNull |-> FALSE, val |-> v]

Num(m, e) == [k |-> "num", m |-> m, e |-> e]
NaN == [k |-> "nan", m |-> 0, e |-> 0]
Infinity == [k |-> "inf", m |-> 1, e |-> 0]
NegInfinity == [k |-> "inf", m |-> -1, e |-> 0]
undefined == [k |-> "undef", m |-> 0, e |-> 0]

RECURSIVE Normalize(_, _)
\* the one record of the decimal m*10^e
Normalize(m, e) ==
  IF m = 0 THEN Num(0, 0)
  ELSE IF m % 10 = 0 THEN Normalize(m \div 10, e + 1)
  ELSE Num(m, e)

Neg(x) ==
  IF x.k = "num" THEN Num(-x.m, x.e)
  ELSE IF x.k = "inf" THEN [x EXCEPT !.m = -x.m]
  ELSE x

\* isNaN(v): ToNumber(undefined) is NaN
isNaN(x) == x.k \in {"nan", "undef"}

\* ---------------------------------------------------------------- strings

Lower == <<"a","b","c","d","e","f","g","h","i","j","k","l","m","n","o","p","q","r","s","t","u","v","w","x","y","z">>
Upper == <<"A","B","C","D","E","F","G","H","I","J","K","L","M","N","O","P","Q","R","S","T","U","V","W","X","Y","Z">>
Digits == <<"0","1","2","3","4","5","6","7","8","9">>

IsDigit(c) == \E i \in 1..10 : Digits[i] = c
DigitVal(c) == (CHOOSE i \in 1..10 : Digits[i] = c) - 1
\* \s of a regular expression and the characters trim() strips
IsSpace(c) == c \in {" ", "\t", "\n", "\r"}
\* what . of a regular expression does not match
IsLineTerminator(c) == c \in {"\n", "\r"}

toUpperChar(c) == IF \E i \in 1..26 : Lower[i] = c THEN Upper[CHOOSE i \in 1..26 : Lower[i] = c] ELSE c
\* String.prototype.toUpperCase
toUpperCase(s) == [i \in 1..Len(s) |-> toUpperChar(s[i])]

\* s.startsWith(p, i) with 1-based i
StartsAt(s, p, i) == i + Len(p) - 1 <= Len(s) /\ \A j \in 1..Len(p) : s[i + j - 1] = p[j]

\* 0 when there is none
FirstWhere(S) == IF S = {} THEN 0 ELSE CHOOSE i \in S : \A j \in S : i <= j

RECURSIVE trimStart(_)
trimStart(s) == IF s # <<>> /\ IsSpace(Head(s)) THEN trimStart(Tail(s)) ELSE s
RECURSIVE trimEnd(_)
trimEnd(s) == IF s # <<>> /\ IsSpace(s[Len(s)]) THEN trimEnd(SubSeq(s, 1, Len(s) - 1)) ELSE s
\* String.prototype.trim
trim(s) == trimEnd(trimStart(s))

RECURSIVE splitOn(_, _)
\* s.split(sep) for a one-character separator: the pieces between, empty pieces kept
splitOn(s, sep) ==
  LET c == FirstWhere({i \in 1..Len(s) : s[i] = sep})
  IN IF c = 0 THEN <<s>>
     ELSE <<SubSeq(s, 1, c - 1)>> \o splitOn(SubSeq(s, c + 1, Len(s)), sep)

\* s.split(",")
splitComma(s) == splitOn(s, ",")

RECURSIVE splitSpaces(_)
\* s.split(/\s+/): the pieces between the runs of white space, empty pieces kept
splitSpaces(s) ==
  LET c == FirstWhere({i \in 1..Len(s) : IsSpace(s[i])})
  IN IF c = 0 THEN <<s>>
     ELSE <<SubSeq(s, 1, c - 1)>> \o splitSpaces(trimStart(SubSeq(s, c, Len(s))))

RECURSIVE join(_, _)
\* Array.prototype.join of strings
join(parts, sep) ==
  IF parts = <<>> THEN <<>>
  ELSE IF Len(parts) = 1 THEN parts[1]
  ELSE parts[1] \o sep \o join(Tail(parts), sep)

\* ---------------------------------------------------------------- numbers

RECURSIVE DigitsToNat(_)
\* the value of a run of decimal digits
DigitsToNat(ds) == IF ds = <<>> THEN 0 ELSE 10 * DigitsToNat(SubSeq(ds, 1, Len(ds) - 1)) + DigitVal(ds[Len(ds)])

RECURSIVE NatToDigits(_)
\* the decimal digits of a natural number, no leading zero
NatToDigits(n) == IF n < 10 THEN <<Digits[n + 1]>> ELSE NatToDigits(n \div 10) \o <<Digits[(n % 10) + 1]>>

AllDigits(s) == \A i \in 1..Len(s) : IsDigit(s[i])
Zeros(n) == [i \in 1..n |-> "0"]

HexDigits == <<"0","1","2","3","4","5","6","7","8","9","A","B","C","D","E","F">>
IsHexDigit(c) == \E i \in 1..16 : HexDigits[i] = toUpperChar(c)
RECURSIVE HexToNat(_)
HexToNat(ds) ==
  IF ds = <<>> THEN 0
  ELSE 16 * HexToNat(SubSeq(ds, 1, Len(ds) - 1))
       + (CHOOSE i \in 1..16 : HexDigits[i] = toUpperChar(ds[Len(ds)])) - 1

\* StrUnsignedDecimalLiteral: digits [. digits] [e [sign] digits], or . digits [...]
UnsignedDecimal(s) ==
  LET ePos == FirstWhere({i \in 1..Len(s) : s[i] \in {"e", "E"}})
      mant == IF ePos = 0 THEN s ELSE SubSeq(s, 1, ePos - 1)
      expo == IF ePos = 0 THEN <<>> ELSE SubSeq(s, ePos + 1, Len(s))
      expSigned == expo # <<>> /\ expo[1] \in {"+", "-"}
      expDigits == IF expSigned THEN Tail(expo) ELSE expo
      dot == FirstWhere({i \in 1..Len(mant) : mant[i] = "."})
      intPart == IF dot = 0 THEN mant ELSE SubSeq(mant, 1, dot - 1)
      fracPart == IF dot = 0 THEN <<>> ELSE SubSeq(mant, dot + 1, Len(mant))
      ok == /\ AllDigits(intPart) /\ AllDigits(fracPart)
            /\ intPart \o fracPart # <<>>
            /\ (ePos # 0 => expDigits # <<>> /\ AllDigits(expDigits))
      ex == IF ePos = 0 THEN 0
            ELSE IF expSigned /\ expo[1] = "-" THEN 0 - DigitsToNat(expDigits)
            ELSE DigitsToNat(expDigits)
  IN IF ok THEN Normalize(DigitsToNat(intPart \o fracPart), ex - Len(fracPart)) ELSE NaN

InfinityText == <<"I","n","f","i","n","i","t","y">>

\* Number(string): StringToNumber of the trimmed text
Number(str) ==
  LET s == trim(str)
      signed == s # <<>> /\ s[1] \in {"+", "-"}
      body == IF signed THEN Tail(s) ELSE s
      mag == IF body = InfinityText THEN Infinity ELSE UnsignedDecimal(body)
  IN IF s = <<>> THEN Num(0, 0)
     ELSE IF Len(s) > 2 /\ s[1] = "0" /\ s[2] \in {"x", "X"}
       THEN IF \A i \in 3..Len(s) : IsHexDigit(s[i]) THEN Normalize(HexToNat(SubSeq(s, 3, Len(s))), 0) ELSE NaN
     ELSE IF signed /\ s[1] = "-" THEN Neg(mag)
     ELSE mag

\* Number::toString(x) of a positive finite number with digits ds and exponent e
PositiveToString(ds, e) ==
  LET k == Len(ds)
      n == k + e
      ex == n - 1
      exText == <<"e", IF ex < 0 THEN "-" ELSE "+">> \o NatToDigits(IF ex < 0 THEN 0 - ex ELSE ex)
  IN IF k <= n /\ n <= 21 THEN ds \o Zeros(n - k)
     ELSE IF 0 < n /\ n <= 21 THEN SubSeq(ds, 1, n) \o <<".">> \o SubSeq(ds, n + 1, k)
     ELSE IF -6 < n /\ n <= 0 THEN <<"0", ".">> \o Zeros(0 - n) \o ds
     ELSE IF k = 1 THEN ds \o exText
     ELSE <<ds[1], ".">> \o SubSeq(ds, 2, k) \o exText

\* `${x}` of a number: Number::toString
NumberToString(x) ==
  IF x.k = "nan" THEN <<"N","a","N">>
  ELSE IF x.k = "undef" THEN <<"u","n","d","e","f","i","n","e","d">>
  ELSE IF x.k = "inf" THEN (IF x.m < 0 THEN <<"-">> ELSE <<>>) \o InfinityText
  ELSE IF x.m = 0 THEN <<"0">>
  ELSE IF x.m < 0 THEN <<"-">> \o PositiveToString(NatToDigits(0 - x.m), x.e)
  ELSE PositiveToString(NatToDigits(x.m), x.e)

\* ---------------------------------------------------------------- geometry

SridText == <<"S","R","I","D","=">>
PolygonText == <<"P","O","L","Y","G","O","N">>
WktHead == <<"S","R","I","D","=","4","3","2","6",";","P","O","L","Y","G","O","N"," ","(","(">>
WktTail == <<")",")">>

\* the first index from i on whose character is no digit (Len(s) + 1 at the end)
DigitRunEnd(s, i) == FirstWhere({j \in i..(Len(s) + 1) : j = Len(s) + 1 \/ ~IsDigit(s[j])})
SpaceRunEnd(s, i) == FirstWhere({j \in i..(Len(s) + 1) : j = Len(s) + 1 \/ ~IsSpace(s[j])})

\* /SRID=\d+;/ matched at i: the index of its ";" (0: no match at i)
SridMatchAt(s, i) ==
  IF ~StartsAt(s, SridText, i) THEN 0
  ELSE LET r == DigitRunEnd(s, i + 5)
       IN IF r > i + 5 /\ r <= Len(s) /\ s[r] = ";" THEN r ELSE 0

\* s.replace(/SRID=\d+;/, ""): the leftmost match is removed
replaceSrid(s) ==
  LET i == FirstWhere({j \in 1..Len(s) : SridMatchAt(s, j) # 0})
  IN IF i = 0 THEN s ELSE SubSeq(s, 1, i - 1) \o SubSeq(s, SridMatchAt(s, i) + 1, Len(s))

\* /POLYGON\s*\(\((.*?)\)\)/ matched at i: <<first, last>> of the captured group
\* (last = first - 1 for an empty group), <<0, 0>> when there is no match at i
PolygonMatchAt(s, i) ==
  IF ~StartsAt(s, PolygonText, i) THEN <<0, 0>>
  ELSE LET w == SpaceRunEnd(s, i + 7)
       IN IF ~StartsAt(s, <<"(", "(">>, w) THEN <<0, 0>>
          ELSE LET c == w + 2
                   j == FirstWhere({x \in c..Len(s) : StartsAt(s, <<")", ")">>, x)})
               IN IF j = 0 \/ \E x \in c..(j - 1) : IsLineTerminator(s[x]) THEN <<0, 0>>
                  ELSE <<c, j - 1>>

\* s.match(/POLYGON\s*\(\((.*?)\)\)/): null, or match[1] of the leftmost match
matchPolygon(s) ==
  LET i == FirstWhere({j \in 1..Len(s) : PolygonMatchAt(s, j)[1] # 0})
  IN IF i = 0 THEN null
     ELSE Some(SubSeq(s, PolygonMatchAt(s, i)[1], PolygonMatchAt(s, i)[2]))

\* a faulty variant of parsePair, for comparison: the pair is returned as written, (lng, lat)
parsePairNoSwap(pair) ==
  LET tokens == splitSpaces(trim(pair))
      nums == [i \in 1..Len(tokens) |-> Number(tokens[i])]
      lng == nums[1]
      lat == IF Len(nums) >= 2 THEN nums[2] ELSE undefined
  IN [thrown |-> isNaN(lat) \/ isNaN(lng), val |-> <<lng, lat>>]

\* the callback of coordsString.split(",").map: the pair, with thrown set when it throws
parsePair(pair) ==
  LET tokens == splitSpaces(trim(pair))
      nums == [i \in 1..Len(tokens) |-> Number(tokens[i])]
      lng == nums[1]
      lat == IF Len(nums) >= 2 THEN nums[2] ELSE undefined
  IN [thrown |-> isNaN(lat) \/ isNaN(lng), val |-> <<lat, lng>>]

\* a faulty variant of parseWKTPolygon, for comparison: the pairs that throw are skipped
parseWKTPolygonPartial(text) ==
  LET cleanWkt == replaceSrid(toUpperCase(text))
      match == matchPolygon(cleanWkt)
      items == splitComma(match.val)
      pairs == [i \in 1..Len(items) |-> parsePair(items[i])]
      kept == SelectSeq(pairs, LAMBDA q : ~q.thrown)
  IN IF match.isNull THEN null
     ELSE Some([i \in 1..Len(kept) |-> kept[i].val])


parseWKTPolygon(text) ==
  LET cleanWkt == replaceSrid(toUpperCase(text))
      match == matchPolygon(cleanWkt)
      items == splitComma(match.val)
      pairs == [i \in 1..Len(items) |-> parsePair(items[i])]
  IN IF match.isNull THEN null
     ELSE IF \E i \in 1..Len(pairs) : pairs[i].thrown THEN null
     ELSE Some([i \in 1..Len(pairs) |-> pairs[i].val])

\* `${a} ${b}`
PairText(a, b) == NumberToString(a) \o <<" ">> \o NumberToString(b)

\* a faulty variant of wktCoordsOf, for comparison: the pair is written second element first
wktCoordsOfSwapped(coord) == PairText(coord[2], coord[1])


wktCoordsOf(coord) == PairText(coord[1], coord[2])

\* coordinates.map((coord) => `${coord[0]} ${coord[1]}`)
wktCoordsOfAll(coordinates) == [i \in 1..Len(coordinates) |-> wktCoordsOf(coordinates[i])]

RECURSIVE convertFeaturesLast(_)
\* a faulty variant of convertFeatures, for comparison: a later Polygon feature replaces an earlier one
convertFeaturesLast(features) ==
  IF features = <<>> THEN null
  ELSE LET feature == Head(features)
           later == convertFeaturesLast(Tail(features))
       IN IF ~feature.hasGeometry THEN null
          ELSE IF feature.geometry.type = "Polygon" /\ later.isNull
            THEN IF ~feature.geometry.hasCoordinates \/ feature.geometry.coordinates = <<>> THEN null
                 ELSE Some(WktHead \o join(wktCoordsOfAll(feature.geometry.coordinates[1]), <<",", " ">>) \o WktTail)
          ELSE later

RECURSIVE convertFeaturesLenient(_)
\* a faulty variant of convertFeatures, for comparison: a feature that cannot be read is skipped
convertFeaturesLenient(features) ==
  IF features = <<>> THEN null
  ELSE LET feature == Head(features)
       IN IF feature.hasGeometry /\ feature.geometry.type = "Polygon"
             /\ feature.geometry.hasCoordinates /\ feature.geometry.coordinates # <<>>
          THEN Some(WktHead \o join(wktCoordsOfAll(feature.geometry.coordinates[1]), <<",", " ">>) \o WktTail)
          ELSE convertFeaturesLenient(Tail(features))

RECURSIVE convertFeatures(_)
\* the for loop of convertToWKT over the features not yet visited
convertFeatures(features) ==
  IF features = <<>> THEN null
  ELSE LET feature == Head(features)
       IN IF ~feature.hasGeometry THEN null
          ELSE IF feature.geometry.type = "Polygon"
            THEN IF ~feature.geometry.hasCoordinates \/ feature.geometry.coordinates = <<>> THEN null
                 ELSE Some(WktHead \o join(wktCoordsOfAll(feature.geometry.coordinates[1]), <<",", " ">>) \o WktTail)
          ELSE convertFeatures(Tail(features))

convertToWKT(g) == convertFeatures(IF g.hasFeatures THEN g.features ELSE <<>>)

\* a faulty variant of swappedTextOf, for comparison: the pair is written as stored, (lat, lng)
swappedTextOfStored(coord) == PairText(coord[1], coord[2])

\* `SRID=4326;POLYGON ((${polygonCoords.map(coord => `${coord[1]} ${coord[0]}`).join(", ")}))`
swappedTextOf(coord) == PairText(coord[2], coord[1])
\* a faulty variant of swapOf, for comparison: the pair is kept as stored, (lat, lng)
swapOfStored(coord) == <<coord[1], coord[2]>>

\* polygonCoords.map(coord => [coord[1], coord[0]])
swapOf(coord) == <<coord[2], coord[1]>>

\* L.polygon(latlngs, options)
LPolygon(latlngs) == [type |-> "Polygon", latlngs |-> latlngs]

\* the polygonData object of handleCreateNewAnalysisFromPolygon
polygonDataOf(polygonCoords) ==
  [geoJson |-> [hasFeatures |-> TRUE,
                features |-> <<[hasGeometry |-> TRUE,
                                geometry |-> [type |-> "Polygon", hasCoordinates |-> TRUE,
                                              coordinates |-> <<[i \in 1..Len(polygonCoords) |-> swapOf(polygonCoords[i])]>>]]>>],
   wktLocation |-> WktHead \o join([i \in 1..Len(polygonCoords) |-> swappedTextOf(polygonCoords[i])], <<",", " ">>)
                     \o WktTail,
   drawnItemsCount |-> 1]

\* ---------------------------------------------------------------- aggregation

jsNull == [k |-> "null", m |-> 0, e |-> 0]

\* 10^n
RECURSIVE Pow10(_)
Pow10(n) == IF n <= 0 THEN 1 ELSE 10 * Pow10(n - 1)

Min(a, b) == IF a < b THEN a ELSE b

\* a + b of two finite numbers
Add(a, b) ==
  LET e == Min(a.e, b.e)
  IN IF a.k # "num" \/ b.k # "num" THEN NaN
     ELSE Normalize(a.m * Pow10(a.e - e) + b.m * Pow10(b.e - e), e)

\* v || 0: null, undefined, NaN and 0 are falsy
OrZero(v) == IF v.k \in {"null", "undef", "nan"} \/ (v.k = "num" /\ v.m = 0) THEN Num(0, 0) ELSE v

\* IEEE 754 binary64 arithmetic: what +, - and / of JavaScript numbers compute.

\* Natural numbers too wide for one integer are little-endian sequences of limbs
\* below LimbBase, without a high zero limb; 0 is <<>>.
LimbBits == 15
LimbBase == 32768

RECURSIVE Pow2(_)
Pow2(n) == IF n <= 0 THEN 1 ELSE 2 * Pow2(n - 1)

RECURSIVE LNorm(_)
LNorm(a) == IF a # <<>> /\ a[Len(a)] = 0 THEN LNorm(SubSeq(a, 1, Len(a) - 1)) ELSE a

RECURSIVE LOfNat(_)
LOfNat(n) == IF n = 0 THEN <<>> ELSE <<n % LimbBase>> \o LOfNat(n \div LimbBase)

RECURSIVE LToNat(_)
LToNat(a) == IF a = <<>> THEN 0 ELSE Head(a) + LimbBase * LToNat(Tail(a))

Limb(a, i) == IF i <= Len(a) THEN a[i] ELSE 0

RECURSIVE LAddFrom(_, _, _, _)
LAddFrom(a, b, i, c) ==
  IF i > Len(a) /\ i > Len(b) THEN (IF c = 0 THEN <<>> ELSE <<c>>)
  ELSE LET t == Limb(a, i) + Limb(b, i) + c
       IN <<t % LimbBase>> \o LAddFrom(a, b, i + 1, t \div LimbBase)

LAdd(a, b) == LAddFrom(a, b, 1, 0)

RECURSIVE LSubFrom(_, _, _, _)
LSubFrom(a, b, i, c) ==
  IF i > Len(a) THEN <<>>
  ELSE LET t == Limb(a, i) - Limb(b, i) - c
       IN <<(t + LimbBase) % LimbBase>> \o LSubFrom(a, b, i + 1, IF t < 0 THEN 1 ELSE 0)

\* a - b for a >= b
LSub(a, b) == LNorm(LSubFrom(a, b, 1, 0))

LLess(a, b) ==
  \/ Len(a) < Len(b)
  \/ /\ Len(a) = Len(b)
     /\ \E i \in 1..Len(a) : a[i] < b[i] /\ \A j \in (i + 1)..Len(a) : a[j] = b[j]

RECURSIVE LMulFrom(_, _, _, _)
LMulFrom(a, n, i, c) ==
  IF i > Len(a) THEN LOfNat(c)
  ELSE LET t == a[i] * n + c
       IN <<t % LimbBase>> \o LMulFrom(a, n, i + 1, t \div LimbBase)

\* a * n for 0 <= n <= LimbBase
LMulSmall(a, n) == IF n = 0 THEN <<>> ELSE LMulFrom(a, n, 1, 0)

RECURSIVE LDivFrom(_, _, _, _)
LDivFrom(a, n, i, r) ==
  IF i = 0 THEN [q |-> <<>>, r |-> r]
  ELSE LET t == r * LimbBase + a[i]
           rest == LDivFrom(a, n, i - 1, t % n)
       IN [q |-> rest.q \o <<t \div n>>, r |-> rest.r]

\* quotient and remainder of a by n, 1 <= n <= LimbBase
LDivSmall(a, n) == LET d == LDivFrom(a, n, Len(a), 0) IN [q |-> LNorm(d.q), r |-> d.r]

\* a * 2^k
LShl(a, k) ==
  IF a = <<>> THEN <<>>
  ELSE LMulSmall([i \in 1..(k \div LimbBits) |-> 0] \o a, Pow2(k % LimbBits))

\* a div 2^k, and whether a bit was shifted out
LShr(a, k) ==
  LET w == k \div LimbBits
      d == LDivSmall(SubSeq(a, w + 1, Len(a)), Pow2(k % LimbBits))
  IN [q |-> d.q, sticky |-> d.r # 0 \/ \E i \in 1..Min(w, Len(a)) : a[i] # 0]

RECURSIVE BitsOf(_)
BitsOf(n) == IF n = 0 THEN 0 ELSE 1 + BitsOf(n \div 2)

LBitLen(a) == IF a = <<>> THEN 0 ELSE LimbBits * (Len(a) - 1) + BitsOf(a[Len(a)])

LOdd(a) == a # <<>> /\ a[1] % 2 = 1

RECURSIVE TrailingZeros(_)
TrailingZeros(n) == IF n % 2 = 1 THEN 0 ELSE 1 + TrailingZeros(n \div 2)

\* A finite double is s * m * 2^x with m odd (or m = 0, s = 1, x = 0), so equal
\* records are equal numbers.
Double(s, m, x) == [k |-> "num", s |-> s, m |-> m, x |-> x]
fZero == Double(1, <<>>, 0)
fNaN == [k |-> "nan", s |-> 1, m |-> <<>>, x |-> 0]
fInfinity(s) == [k |-> "inf", s |-> s, m |-> <<>>, x |-> 0]

RECURSIVE fCanon(_, _, _)
fCanon(s, M, x) ==
  IF M = <<>> THEN fZero
  ELSE IF M[1] = 0 THEN fCanon(s, Tail(M), x + LimbBits)
  ELSE LET t == TrailingZeros(M[1])
       IN Double(s, LDivSmall(M, Pow2(t)).q, x + t)

\* the double nearest to s * M * 2^x (ties to even); sticky says that the exact
\* value is a little above M * 2^x, and then M has more than 53 bits
fRound(s, M, x, sticky) ==
  LET d == LBitLen(M) - 53
  IN IF d <= 0 THEN fCanon(s, M, x)
     ELSE LET s1 == LShr(M, d - 1)
              q == LDivSmall(s1.q, 2).q
              up == LOdd(s1.q) /\ (s1.sticky \/ sticky \/ LOdd(q))
          IN fCanon(s, IF up THEN LAdd(q, <<1>>) ELSE q, x + d)

fNeg(a) == IF a.k = "nan" \/ (a.k = "num" /\ a.m = <<>>) THEN a ELSE [a EXCEPT !.s = 0 - a.s]

\* a + b
fAdd(a, b) ==
  IF a.k = "nan" \/ b.k = "nan" THEN fNaN
  ELSE IF a.k = "inf" THEN (IF b.k = "inf" /\ b.s # a.s THEN fNaN ELSE a)
  ELSE IF b.k = "inf" THEN b
  ELSE IF a.m = <<>> THEN b
  ELSE IF b.m = <<>> THEN a
  ELSE LET x == Min(a.x, b.x)
           A == LShl(a.m, a.x - x)
           B == LShl(b.m, b.x - x)
       IN IF a.s = b.s THEN fRound(a.s, LAdd(A, B), x, FALSE)
          ELSE IF A = B THEN fZero
          ELSE IF LLess(A, B) THEN fRound(b.s, LSub(B, A), x, FALSE)
          ELSE fRound(a.s, LSub(A, B), x, FALSE)

\* a - b
fSub(a, b) == fAdd(a, fNeg(b))

\* a / n for a count n
fDiv(a, n) ==
  IF a.k = "nan" THEN fNaN
  ELSE IF n = 0 THEN (IF a.k = "num" /\ a.m = <<>> THEN fNaN ELSE fInfinity(a.s))
  ELSE IF a.k = "inf" \/ n = 1 THEN a
  ELSE LET d == LDivSmall(LShl(a.m, 75), n)
       IN fRound(a.s, d.q, a.x - 75, d.r # 0)

RECURSIVE LTimesPow10(_, _)
LTimesPow10(a, n) == IF n = 0 THEN a ELSE LTimesPow10(LMulSmall(a, 10), n - 1)

RECURSIVE LOverPow10(_, _, _)
LOverPow10(a, n, sticky) ==
  IF n = 0 THEN [q |-> a, sticky |-> sticky]
  ELSE LET d == LDivSmall(a, 10) IN LOverPow10(d.q, n - 1, sticky \/ d.r # 0)

\* the double a decimal number names: the nearest one
ToDouble(v) ==
  IF v.k = "inf" THEN fInfinity(v.m)
  ELSE IF v.k # "num" THEN fNaN
  ELSE LET s == IF v.m < 0 THEN -1 ELSE 1
           mag == LOfNat(IF v.m < 0 THEN 0 - v.m ELSE v.m)
       IN IF v.e \in 0..3 /\ v.m \in -99999..99999 THEN fCanon(s, LOfNat(Pow10(v.e) * (s * v.m)), 0)
          ELSE IF v.e >= 0 THEN fRound(s, LTimesPow10(mag, v.e), 0, FALSE)
          ELSE LET up == 75 + 4 * (0 - v.e)
                   d == LOverPow10(LShl(mag, up), 0 - v.e, FALSE)
               IN fRound(s, d.q, 0 - up, d.sticky)

\* x.toFixed(2) of a double below 10^21: the nearest multiple of 0.01 to the exact
\* value of x, the larger one when two are equally near
toFixed2(a) ==
  IF a.k = "nan" THEN <<"N", "a", "N">>
  ELSE IF a.k = "inf" THEN (IF a.s < 0 THEN <<"-">> ELSE <<>>) \o InfinityText
  ELSE LET T == LMulSmall(a.m, 100)
           n == IF a.x >= 0 THEN LShl(T, a.x)
                ELSE LShr(LAdd(T, LShl(<<1>>, 0 - a.x - 1)), 0 - a.x).q
           h == LToNat(n)
           frac == h % 100
       IN (IF a.s < 0 THEN <<"-">> ELSE <<>>) \o NatToDigits(h \div 100) \o <<".">>
            \o <<Digits[(frac \div 10) + 1], Digits[(frac % 10) + 1]>>

\* (sum / n).toFixed(2)
DivToFixed2(sum, n) == toFixed2(fDiv(sum, n))

\* UTF-16 order of the characters that occur in keys
CodeOrder == <<" ", "-", ".">> \o Digits \o Upper \o Lower
CharCode(c) == CHOOSE i \in 1..Len(CodeOrder) : CodeOrder[i] = c

RECURSIVE StrLess(_, _)
\* a < b of two strings: code unit by code unit, a proper prefix first
StrLess(a, b) ==
  IF b = <<>> THEN FALSE
  ELSE IF a = <<>> THEN TRUE
  ELSE IF Head(a) # Head(b) THEN CharCode(Head(a)) < CharCode(Head(b))
  ELSE StrLess(Tail(a), Tail(b))

RECURSIVE InsertSorted(_, _)
InsertSorted(x, xs) ==
  IF xs = <<>> THEN <<x>>
  ELSE IF StrLess(x, Head(xs)) THEN <<x>> \o xs
  ELSE <<Head(xs)>> \o InsertSorted(x, Tail(xs))

RECURSIVE sort(_)
\* Array.prototype.sort() of strings, default comparison
sort(xs) == IF xs = <<>> THEN <<>> ELSE InsertSorted(Head(xs), sort(Tail(xs)))

\* Array.prototype.reverse
reverse(xs) == [i \in 1..Len(xs) |-> xs[Len(xs) + 1 - i]]

\* String(x).padStart(2, "0")
padStart2(str) == IF Len(str) < 2 THEN Zeros(2 - Len(str)) \o str ELSE str

\* A Date: new Date(capture_date) in the local time zone.  valid = FALSE is Invalid Date.
getFullYear(date) == IF date.valid THEN Num(date.year, 0) ELSE NaN
\* 0-based
getMonth(date) == IF date.valid THEN Num(date.month - 1, 0) ELSE NaN

MonthNamesEs == <<<<"e","n","e","r","o">>,
                  <<"f","e","b","r","e","r","o">>,
                  <<"m","a","r","z","o">>,
                  <<"a","b","r","i","l">>,
                  <<"m","a","y","o">>,
                  <<"j","u","n","i","o">>,
                  <<"j","u","l","i","o">>,
                  <<"a","g","o","s","t","o">>,
                  <<"s","e","p","t","i","e","m","b","r","e">>,
                  <<"o","c","t","u","b","r","e">>,
                  <<"n","o","v","i","e","m","b","r","e">>,
                  <<"d","i","c","i","e","m","b","r","e">>>>

\* date.toLocaleDateString("es-ES", {year: "numeric", month: "long"})
toLocaleDateString(date) ==
  IF date.valid THEN MonthNamesEs[date.month] \o <<" ", "d", "e", " ">> \o NatToDigits(date.year)
  ELSE <<"I","n","v","a","l","i","d"," ","D","a","t","e">>

\* `${date.getFullYear()}-${String(date.getMonth() + 1).padStart(2, '0')}`
monthKeyOf(date) ==
  NumberToString(getFullYear(date)) \o <<"-">>
    \o padStart2(NumberToString(Add(getMonth(date), Num(1, 0))))

\* a faulty variant of pushImage, for comparison: a later image of a month replaces the earlier ones
pushImageOverwrite(groups, image) ==
  LET date == image.capture_date
      monthKey == monthKeyOf(date)
      entry == [image |-> image, monthName |-> toLocaleDateString(date)]
      at == FirstWhere({i \in 1..Len(groups) : groups[i].key = monthKey})
  IN IF at = 0 THEN Append(groups, [key |-> monthKey, data |-> <<entry>>])
     ELSE [groups EXCEPT ![at].data = <<entry>>]

\* groups[monthKey].push({...image, monthName}), the group created when absent;
\* groups is the object's entries in insertion order
pushImage(groups, image) ==
  LET date == image.capture_date
      monthKey == monthKeyOf(date)
      entry == [image |-> image, monthName |-> toLocaleDateString(date)]
      at == FirstWhere({i \in 1..Len(groups) : groups[i].key = monthKey})
  IN IF at = 0 THEN Append(groups, [key |-> monthKey, data |-> <<entry>>])
     ELSE [groups EXCEPT ![at].data = Append(@, entry)]

RECURSIVE groupByMonthFrom(_, _)
groupByMonthFrom(groups, images) ==
  IF images = <<>> THEN groups ELSE groupByMonthFrom(pushImage(groups, Head(images)), Tail(images))

\* groupByMonth of src/unnamed/part_000
groupByMonth(images) == groupByMonthFrom(<<>>, images)

\* Object.keys(groups)
ObjectKeys(groups) == [i \in 1..Len(groups) |-> groups[i].key]
\* groups[key]
GroupOf(groups, key) == groups[CHOOSE i \in 1..Len(groups) : groups[i].key = key].data

RECURSIVE sumVegetation(_)
\* monthData.reduce((sum, img) => sum + (img.vegetation_percentage || 0), 0)
sumVegetation(monthData) ==
  IF monthData = <<>> THEN fZero
  ELSE fAdd(sumVegetation(SubSeq(monthData, 1, Len(monthData) - 1)),
            ToDouble(OrZero(monthData[Len(monthData)].image.vegetation_percentage)))

RECURSIVE sumWater(_)
\* monthData.reduce((sum, img) => sum + (img.water_percentage || 0), 0)
sumWater(monthData) ==
  IF monthData = <<>> THEN fZero
  ELSE fAdd(sumWater(SubSeq(monthData, 1, Len(monthData) - 1)),
            ToDouble(OrZero(monthData[Len(monthData)].image.water_percentage)))

\* monthName.split(' ')[0]
firstWord(str) == splitOn(str, " ")[1]

\* a faulty variant of bucketOf, for comparison: records without a vegetation value are left out of its average
bucketOfSkipNull(monthlyGroups, monthKey) ==
  LET monthData == GroupOf(monthlyGroups, monthKey)
      measured == SelectSeq(monthData, LAMBDA x : x.image.vegetation_percentage.k = "num")
  IN [monthKey |-> monthKey,
      monthName |-> monthData[1].monthName,
      shortName |-> firstWord(monthData[1].monthName),
      avgVegetation |-> IF measured = <<>> THEN Num(0, 0)
                        ELSE Number(DivToFixed2(sumVegetation(measured), Len(measured))),
      avgWater |-> Number(DivToFixed2(sumWater(monthData), Len(monthData))),
      count |-> Len(monthData)]

\* the bucket of one month key (src/unnamed/part_000 162-175)
bucketOf(monthlyGroups, monthKey) ==
  LET monthData == GroupOf(monthlyGroups, monthKey)
  IN [monthKey |-> monthKey,
      monthName |-> monthData[1].monthName,
      shortName |-> firstWord(monthData[1].monthName),
      avgVegetation |-> Number(DivToFixed2(sumVegetation(monthData), Len(monthData))),
      avgWater |-> Number(DivToFixed2(sumWater(monthData), Len(monthData))),
      count |-> Len(monthData)]

\* a faulty variant of monthlyAverages, for comparison: the month keys are left in the order they were first seen
monthlyAveragesUnsorted(images) ==
  LET monthlyGroups == groupByMonth(images)
      sortedMonths == ObjectKeys(monthlyGroups)
  IN [i \in 1..Len(sortedMonths) |-> bucketOf(monthlyGroups, sortedMonths[i])]

\* monthlyAverages of src/unnamed/part_000
monthlyAverages(images) ==
  LET monthlyGroups == groupByMonth(images)
      sortedMonths == reverse(sort(ObjectKeys(monthlyGroups)))
  IN [i \in 1..Len(sortedMonths) |-> bucketOf(monthlyGroups, sortedMonths[i])]

\* groups[monthKey].push({...image, monthName}) of AnalysisHistoryModal.tsx
pushImage_tsx(groups, image) ==
  LET date == image.capture_date
      monthKey == monthKeyOf(date)
      entry == [image |-> image, monthName |-> toLocaleDateString(date)]
      at == FirstWhere({i \in 1..Len(groups) : groups[i].key = monthKey})
  IN IF at = 0 THEN Append(groups, [key |-> monthKey, data |-> <<entry>>])
     ELSE [groups EXCEPT ![at].data = Append(@, entry)]

RECURSIVE groupByMonthFrom_tsx(_, _)
groupByMonthFrom_tsx(groups, images) ==
  IF images = <<>> THEN groups
  ELSE groupByMonthFrom_tsx(pushImage_tsx(groups, Head(images)), Tail(images))

\* groupByMonth of src/components/AnalysisHistoryModal.tsx
groupByMonth_tsx(images) == groupByMonthFrom_tsx(<<>>, images)

RECURSIVE sumVegetation_tsx(_)
sumVegetation_tsx(monthData) ==
  IF monthData = <<>> THEN fZero
  ELSE fAdd(sumVegetation_tsx(SubSeq(monthData, 1, Len(monthData) - 1)),
            ToDouble(OrZero(monthData[Len(monthData)].image.vegetation_percentage)))

RECURSIVE sumWater_tsx(_)
sumWater_tsx(monthData) ==
  IF monthData = <<>> THEN fZero
  ELSE fAdd(sumWater_tsx(SubSeq(monthData, 1, Len(monthData) - 1)),
            ToDouble(OrZero(monthData[Len(monthData)].image.water_percentage)))

\* the bucket of one month key (src/components/AnalysisHistoryModal.tsx 57-69)
bucketOf_tsx(monthlyGroups, monthKey) ==
  LET monthData == GroupOf(monthlyGroups, monthKey)
  IN [monthKey |-> monthKey,
      monthName |-> monthData[1].monthName,
      avgVegetation |-> Number(DivToFixed2(sumVegetation_tsx(monthData), Len(monthData))),
      avgWater |-> Number(DivToFixed2(sumWater_tsx(monthData), Len(monthData))),
      count |-> Len(monthData)]

\* monthlyAverages of src/components/AnalysisHistoryModal.tsx
monthlyAverages_tsx(images) ==
  LET monthlyGroups == groupByMonth_tsx(images)
      sortedMonths == reverse(sort(ObjectKeys(monthlyGroups)))
  IN [i \in 1..Len(sortedMonths) |-> bucketOf_tsx(monthlyGroups, sortedMonths[i])]

\* a < b of two numbers written in decimal (false when either is no number)
jsLess(a, b) ==
  /\ a.k = "num" /\ b.k = "num"
  /\ LET e == Min(a.e, b.e) IN a.m * Pow10(a.e - e) < b.m * Pow10(b.e - e)

\* last > first ? 'up' : last < first ? 'down' : 'stable'
trendOf(last, first) == IF jsLess(first, last) THEN "up" ELSE IF jsLess(last, first) THEN "down" ELSE "stable"

\* a faulty variant of trends, for comparison: the most recent bucket is compared with the one next to it
trendsOfNeighbours(averages) ==
  IF Len(averages) < 2 THEN [vegetation |-> "stable", water |-> "stable"]
  ELSE LET first == averages[2]
           last == averages[1]
       IN [vegetation |-> trendOf(last.avgVegetation, first.avgVegetation),
           water |-> trendOf(last.avgWater, first.avgWater)]

\* trends of src/unnamed/part_000
trends(averages) ==
  IF Len(averages) < 2 THEN [vegetation |-> "stable", water |-> "stable"]
  ELSE LET first == averages[Len(averages)]
           last == averages[1]
       IN [vegetation |-> trendOf(last.avgVegetation, first.avgVegetation),
           water |-> trendOf(last.avgWater, first.avgWater)]

\* a faulty variant of trends_tsx, for comparison: the two ends are taken the other way round
trends_tsxEndsExchanged(averages) ==
  IF Len(averages) < 2 THEN [vegetation |-> "stable", water |-> "stable"]
  ELSE LET last == averages[Len(averages)]
           first == averages[1]
       IN [vegetation |-> trendOf(last.avgVegetation, first.avgVegetation),
           water |-> trendOf(last.avgWater, first.avgWater)]

\* trends of src/components/AnalysisHistoryModal.tsx
trends_tsx(averages) ==
  IF Len(averages) < 2 THEN [vegetation |-> "stable", water |-> "stable"]
  ELSE LET last == averages[1]
           first == averages[Len(averages)]
       IN [vegetation |-> trendOf(last.avgVegetation, first.avgVegetation),
           water |-> trendOf(last.avgWater, first.avgWater)]

\* the bars of the chart of src/unnamed/part_000, in the order they are drawn:
\* monthlyAverages.map((month, index) => ...)
chartBars(averages) ==
  [i \in 1..Len(averages) |->
     [name |-> averages[i].shortName, lirio |-> averages[i].avgVegetation, agua |-> averages[i].avgWater]]

\* monthlyAverages.map(month => ({name, lirio, agua}))
chartPoints_tsx(averages) ==
  [i \in 1..Len(averages) |->
     [name |-> firstWord(averages[i].monthName), lirio |-> averages[i].avgVegetation,
      agua |-> averages[i].avgWater]]

\* chartData of src/components/AnalysisHistoryModal.tsx: reverse() turns the array
\* map returned, in place; monthlyAverages is what it was
chartData_tsx(averages) ==
  [data |-> reverse(chartPoints_tsx(averages)), monthlyAverages |-> averages]

\* Number((a - b).toFixed(2))
changeOf(a, b) == Number(toFixed2(fSub(ToDouble(a), ToDouble(b))))

\* {change > 0 ? '+' : ''}{change}%
changeText(change) ==
  (IF jsLess(Num(0, 0), change) THEN <<"+">> ELSE <<>>) \o NumberToString(change) \o <<"%">>

\* a faulty variant of tableRows, for comparison: the change is taken against the bucket before, the more recent one
tableRowsAgainstNewer(averages) ==
  [index \in 1..Len(averages) |->
     LET month == averages[index]
         hasPrev == index - 1 >= 1
         prevMonth == averages[IF hasPrev THEN index - 1 ELSE index]
         vegChange == IF hasPrev THEN changeOf(month.avgVegetation, prevMonth.avgVegetation) ELSE Num(0, 0)
         waterChange == IF hasPrev THEN changeOf(month.avgWater, prevMonth.avgWater) ELSE Num(0, 0)
     IN [monthName |-> month.monthName, avgVegetation |-> month.avgVegetation,
         avgWater |-> month.avgWater, count |-> month.count,
         vegChange |-> vegChange, waterChange |-> waterChange,
         variation |-> IF hasPrev THEN Some(<<changeText(vegChange), changeText(waterChange)>>)
                       ELSE null]]

\* the rows of the table of src/unnamed/part_000; variation is null where the
\* cell shows a dash
tableRows(averages) ==
  [index \in 1..Len(averages) |->
     LET month == averages[index]
         hasPrev == index + 1 <= Len(averages)
         prevMonth == averages[IF hasPrev THEN index + 1 ELSE index]
         vegChange == IF hasPrev THEN changeOf(month.avgVegetation, prevMonth.avgVegetation) ELSE Num(0, 0)
         waterChange == IF hasPrev THEN changeOf(month.avgWater, prevMonth.avgWater) ELSE Num(0, 0)
     IN [monthName |-> month.monthName, avgVegetation |-> month.avgVegetation,
         avgWater |-> month.avgWater, count |-> month.count,
         vegChange |-> vegChange, waterChange |-> waterChange,
         variation |-> IF hasPrev THEN Some(<<changeText(vegChange), changeText(waterChange)>>)
                       ELSE null]]

\* the rows of the table of src/components/AnalysisHistoryModal.tsx
tableRows_tsx(averages) ==
  [index \in 1..Len(averages) |->
     LET month == averages[index]
         hasPrev == index + 1 <= Len(averages)
         prevMonth == averages[IF hasPrev THEN index + 1 ELSE index]
         vegChange == IF hasPrev THEN changeOf(month.avgVegetation, prevMonth.avgVegetation) ELSE Num(0, 0)
         waterChange == IF hasPrev THEN changeOf(month.avgWater, prevMonth.avgWater) ELSE Num(0, 0)
     IN [monthName |-> month.monthName, avgVegetation |-> month.avgVegetation,
         avgWater |-> month.avgWater, count |-> month.count,
         vegChange |-> vegChange, waterChange |-> waterChange,
         variation |-> IF hasPrev THEN Some(<<<<"L", ":", " ">> \o changeText(vegChange),
                                              <<"A", ":", " ">> \o changeText(waterChange)>>)
                       ELSE null]]

\* ['Mes', 'Promedio Lirio (%)', 'Promedio Agua (%)', 'Número de Análisis']
headers == <<
  <<"M","e","s">>,
  <<"P","r","o","m","e","d","i","o"," ","L","i","r","i","o"," ","(","%",")">>,
  <<"P","r","o","m","e","d","i","o"," ","A","g","u","a"," ","(","%",")">>,
  <<"N","ú","m","e","r","o"," ","d","e"," ","A","n","á","l","i","s","i","s">>>>

\* [month.monthName, month.avgVegetation, month.avgWater, month.count], each as
\* join writes it
csvRow(month) ==
  <<month.monthName, NumberToString(month.avgVegetation), NumberToString(month.avgWater),
    NatToDigits(month.count)>>

\* monthlyAverages.map(month => [...])
csvData(averages) == [i \in 1..Len(averages) |-> csvRow(averages[i])]

\* row.join(',') of every row
joinedRows(rows) == [i \in 1..Len(rows) |-> join(rows[i], <<",">>)]

\* a faulty variant of csvContent, for comparison: the rows are written oldest bucket first
csvContentOldestFirst(averages) == join(joinedRows(<<headers>> \o reverse(csvData(averages))), <<"\n">>)

\* [headers, ...csvData].map(row => row.join(',')).join('\n')
csvContent(averages) == join(joinedRows(<<headers>> \o csvData(averages)), <<"\n">>)

\* csvContent of src/components/AnalysisHistoryModal.tsx
csvContent_tsx(averages) == join(joinedRows(<<headers>> \o csvData(averages)), <<"\n">>)

\* a.download = `historial-analisis-${ecosystemName}.csv`
downloadName(ecosystemName) == <<"historial-analisis-", ecosystemName, ".csv">>

\* a faulty variant of imagesAfterGrouping, for comparison: monthName is written into the record itself
imagesAfterGroupingInPlace(images) ==
  [i \in 1..Len(images) |->
     [capture_date |-> images[i].capture_date,
      vegetation_percentage |-> images[i].vegetation_percentage,
      water_percentage |-> images[i].water_percentage,
      monthName |-> toLocaleDateString(images[i].capture_date)]]

\* historicalImages after images.forEach(...): each record is read and copied,
\* {...image, monthName}, so the records are what they were
imagesAfterGrouping(images) == images

RECURSIVE latSum(_)
\* coords.reduce((sum, coord) => sum + coord[0], 0)
latSum(points) ==
  IF points = <<>> THEN fZero
  ELSE fAdd(latSum(SubSeq(points, 1, Len(points) - 1)), ToDouble(points[Len(points)][1]))

RECURSIVE lngSum(_)
\* coords.reduce((sum, coord) => sum + coord[1], 0)
lngSum(points) ==
  IF points = <<>> THEN fZero
  ELSE fAdd(lngSum(SubSeq(points, 1, Len(points) - 1)), ToDouble(points[Len(points)][2]))

\* a faulty variant of getPolygonCenter, for comparison: a ring that repeats its
\* first vertex at the end has the closing vertex left out
getPolygonCenterOpenRing(points) ==
  LET open == IF Len(points) > 1 /\ points[Len(points)] = points[1]
              THEN SubSeq(points, 1, Len(points) - 1) ELSE points
  IN <<fDiv(latSum(open), Len(open)), fDiv(lngSum(open), Len(open))>>

\* the pair of doubles [latSum / coords.length, lngSum / coords.length]
getPolygonCenter(points) == <<fDiv(latSum(points), Len(points)), fDiv(lngSum(points), Len(points))>>

\* ---------------------------------------------------------------- inputs

MaxPairs == 3      \* items of a generated WKT text
MaxRing == 3       \* vertices of a generated ring
MaxFeatures == 3   \* features of a generated feature collection

\* all sequences over S of length lo..hi
SeqsOf(S, lo, hi) == UNION {[1..n -> S] : n \in lo..hi}

\* The comma-separated items a WKT text is written from.  tokens is the number of
\* white-space separated tokens of the item, nonNumeric the positions of the tokens
\* that are no numeric literal, lng and lat the values its first two tokens denote.
WktItems == {
  [text |-> <<"1","0"," ","2","0">>, tokens |-> 2, nonNumeric |-> {}, lng |-> Num(1, 1), lat |-> Num(2, 1)],
  [text |-> <<"3","0"," ","4","0">>, tokens |-> 2, nonNumeric |-> {}, lng |-> Num(3, 1), lat |-> Num(4, 1)],
  [text |-> <<"-","9","9",".","5"," ","\t","2","e","-","7"," ">>, tokens |-> 2, nonNumeric |-> {}, lng |-> Num(-995, -1), lat |-> Num(2, -7)],
  [text |-> <<"1","0">>, tokens |-> 1, nonNumeric |-> {}, lng |-> Num(1, 1), lat |-> undefined],
  [text |-> <<>>, tokens |-> 0, nonNumeric |-> {}, lng |-> undefined, lat |-> undefined],
  [text |-> <<"x","1"," ","2","0">>, tokens |-> 2, nonNumeric |-> {1}, lng |-> NaN, lat |-> Num(2, 1)],
  [text |-> <<"1","0"," ","2","0"," ","a","b","c">>, tokens |-> 3, nonNumeric |-> {3}, lng |-> Num(1, 1), lat |-> Num(2, 1)]}

\* What surrounds the items; present says whether the text holds POLYGON ((...)).
WktEnvelopes == {
  [pre |-> <<>>, kw |-> <<"P","O","L","Y","G","O","N">>, gap |-> <<" ">>, open |-> <<"(","(">>, close |-> <<")",")">>, present |-> TRUE],
  [pre |-> <<"S","R","I","D","=","4","3","2","6",";">>, kw |-> <<"P","O","L","Y","G","O","N">>, gap |-> <<" ">>, open |-> <<"(","(">>, close |-> <<")",")">>, present |-> TRUE],
  [pre |-> <<"s","r","i","d","=","4","3","2","6",";">>, kw |-> <<"p","o","l","y","g","o","n">>, gap |-> <<>>, open |-> <<"(","(">>, close |-> <<")",")">>, present |-> TRUE],
  [pre |-> <<"S","R","I","D","=","3","2","6","1","4",";">>, kw |-> <<"P","o","l","y","g","o","n">>, gap |-> <<" ","\n">>, open |-> <<"(","(">>, close |-> <<")",")">>, present |-> TRUE],
  [pre |-> <<>>, kw |-> <<"P","O","L","Y","G","O">>, gap |-> <<" ">>, open |-> <<"(","(">>, close |-> <<")",")">>, present |-> FALSE],
  [pre |-> <<>>, kw |-> <<"P","O","L","Y","G","O","N">>, gap |-> <<" ">>, open |-> <<"(">>, close |-> <<")">>, present |-> FALSE],
  [pre |-> <<"S","R","I","D","=","4","3","2","6",";">>, kw |-> <<"P","O","I","N","T">>, gap |-> <<" ">>, open |-> <<"(","(">>, close |-> <<")",")">>, present |-> FALSE],
  [pre |-> <<>>, kw |-> <<"P","O","L","Y","G","O","N">>, gap |-> <<" ">>, open |-> <<"(","(">>, close |-> <<")">>, present |-> FALSE]}

\* the text written from an envelope and a list of items
WktTextOf(env, items) ==
  env.pre \o env.kw \o env.gap \o env.open \o join([i \in 1..Len(items) |-> items[i].text], <<",", " ">>) \o env.close

\* (lat, lng) vertices: plain, fractional, negative, exponent-formatted, and on the diagonal
Vertices == {
  <<Num(2, 1), Num(1, 1)>>,
  <<Num(4, 1), Num(3, 1)>>,
  <<Num(1925, -2), Num(-995, -1)>>,
  <<Num(1, 21), Num(2, -7)>>,
  <<Num(5, 0), Num(5, 0)>>}

Ecosystems == {[id |-> 1, name |-> "Laguna"], [id |-> 2, name |-> "Presa"]}

\* the square of the centre example, as (lat, lng) vertices and as the items of its text
ExampleSquare == <<<<Num(0, 0), Num(0, 0)>>, <<Num(0, 0), Num(1, 1)>>, <<Num(1, 1), Num(1, 1)>>, <<Num(1, 1), Num(0, 0)>>>>

ExampleSquareItems == <<
  [text |-> <<"0"," ","0">>, tokens |-> 2, nonNumeric |-> {}, lng |-> Num(0, 0), lat |-> Num(0, 0)],
  [text |-> <<"1","0"," ","0">>, tokens |-> 2, nonNumeric |-> {}, lng |-> Num(1, 1), lat |-> Num(0, 0)],
  [text |-> <<"1","0"," ","1","0">>, tokens |-> 2, nonNumeric |-> {}, lng |-> Num(1, 1), lat |-> Num(1, 1)],
  [text |-> <<"0"," ","1","0">>, tokens |-> 2, nonNumeric |-> {}, lng |-> Num(0, 0), lat |-> Num(1, 1)]>>

\* the values of the ecosystem selector: no ecosystem, the two of the list, one not on it
SelectorValues == {<<"n","o","n","e">>, <<"1">>, <<"2">>, <<"9">>}

\* a third ecosystem, loaded in the map scenario, and its location: the example square
Humedal == [id |-> 3, name |-> "Humedal"]
HumedalLocation == <<"P","O","L","Y","G","O","N"," ","(","(","0"," ","0",","," ","1","0"," ","0",","," ","1","0"," ","1","0",","," ","0"," ","1","0",")",")">>

\* ecosystem.location: the first ecosystem of the list has the scenario's text,
\* the second has none
locationOf(ecosystem) ==
  IF ecosystem.id = 1 THEN wkt
  ELSE IF ecosystem = Humedal THEN HumedalLocation
  ELSE <<>>

\* what geocodeLocationByName can answer: nothing, or a place
GeocodedPlaces == {null, Some(<<ToDouble(Num(21, 0)), ToDouble(Num(-99, 0))>>)}

\* (lng, lat) rings of drawn layers
RingA == <<<<Num(1, 1), Num(2, 1)>>, <<Num(3, 1), Num(4, 1)>>, <<Num(1, 1), Num(2, 1)>>>>
RingB == <<<<Num(-995, -1), Num(1925, -2)>>, <<Num(0, 0), Num(5, 0)>>, <<Num(-995, -1), Num(1925, -2)>>>>
HoleC == <<<<Num(7, 0), Num(8, 0)>>, <<Num(9, 0), Num(8, 0)>>, <<Num(7, 0), Num(8, 0)>>>>

Geometry(type, has, coordinates) == [type |-> type, hasCoordinates |-> has, coordinates |-> coordinates]
NoGeometry == Geometry("", FALSE, <<>>)

\* the features a collection is made of: polygons (one with a hole), other geometry
\* types, and features whose geometry or coordinates field is missing
Features == {
  [hasGeometry |-> TRUE, geometry |-> Geometry("Polygon", TRUE, <<RingA>>)],
  [hasGeometry |-> TRUE, geometry |-> Geometry("Polygon", TRUE, <<RingB, HoleC>>)],
  [hasGeometry |-> TRUE, geometry |-> Geometry("Point", TRUE, <<>>)],
  [hasGeometry |-> TRUE, geometry |-> Geometry("LineString", TRUE, <<RingB>>)],
  [hasGeometry |-> TRUE, geometry |-> Geometry("GeometryCollection", FALSE, <<>>)],
  [hasGeometry |-> TRUE, geometry |-> Geometry("Polygon", FALSE, <<>>)],
  [hasGeometry |-> TRUE, geometry |-> Geometry("Polygon", TRUE, <<>>)],
  [hasGeometry |-> FALSE, geometry |-> NoGeometry]}

FeatureCollections ==
  {[hasFeatures |-> TRUE, features |-> fs] : fs \in SeqsOf(Features, 0, MaxFeatures)}
    \cup {[hasFeatures |-> FALSE, features |-> <<>>]}

MaxRecords == 3    \* records of a generated image collection

Date(y, mo) == [valid |-> TRUE, year |-> y, month |-> mo]
InvalidDate == [valid |-> FALSE, year |-> 0, month |-> 0]
\* capture dates as new Date reads them: three months of two years, a month of a
\* three-digit year, and a text that is no date
CaptureDates == {Date(2023, 12), Date(2024, 1), Date(2024, 2), Date(999, 6), InvalidDate}

\* (vegetation_percentage, water_percentage) of a record: whole percentages,
Measurements == {<<Num(1, 1), Num(2, 1)>>, <<Num(3, 1), Num(4, 1)>>}
\* a missing one,
MissingMeasurements == {<<jsNull, jsNull>>}
\* and fractional ones
FractionalMeasurements == {<<Num(6092, -3), Num(2, 1)>>, <<Num(3843, -3), Num(2, 1)>>, <<Num(397, -2), Num(2, 1)>>}

ImagesOf(dates, measurements) ==
  {[capture_date |-> d, vegetation_percentage |-> v[1], water_percentage |-> v[2]] :
     d \in dates, v \in measurements}

HistoricalImages ==
  ImagesOf({Date(2024, 1), Date(2024, 2)}, Measurements)
    \cup ImagesOf({Date(2023, 12), Date(999, 6), InvalidDate}, {<<Num(1, 1), Num(2, 1)>>})
    \cup ImagesOf({Date(2024, 1)}, MissingMeasurements)
    \cup ImagesOf({Date(2024, 2)}, FractionalMeasurements)

NoItems == [env |-> [pre |-> <<>>, kw |-> <<>>, gap |-> <<>>, open |-> <<>>, close |-> <<>>, present |-> FALSE],
            items |-> <<>>]
NoGeoJson == [hasFeatures |-> FALSE, features |-> <<>>]

\* ---------------------------------------------------------------- geometry scenario

NoTrends == [vegetation |-> "", water |-> ""]
NoFile == [download |-> <<>>, content |-> <<>>]

\* nothing rendered yet
ViewIdle ==
  /\ aggStep = 0
  /\ trendsView = NoTrends
  /\ trendsViewTsx = NoTrends
  /\ chartView = <<>>
  /\ chartViewTsx = <<>>
  /\ tableView = <<>>
  /\ tableViewTsx = <<>>
  /\ csvFile = NoFile
  /\ csvFileTsx = NoFile

\* the two copies of AnalysisHistoryModal
Copies == {"part_000", "tsx"}

\* the statements of the component body that define or read monthlyAverages, in the
\* order they are written in src/unnamed/part_000
Body == <<"exportToCSV", "monthlyAverages", "trends", "maxValue", "return">>

\* the same, in the order of src/components/AnalysisHistoryModal.tsx
Body_tsx == <<"monthlyAverages", "trends", "chartData", "maxValue", "exportToCSV", "return">>

BodyOf(copy) == IF copy = "part_000" THEN Body ELSE Body_tsx

\* whether evaluating the statement reads monthlyAverages: useMemo and useCallback
\* evaluate their dependency list, the markup maps over it; the plain function
\* of the tsx copy reads it only when called
ReadsMonthlyAverages(copy, statement) ==
  IF statement = "monthlyAverages" THEN FALSE
  ELSE IF statement = "exportToCSV" THEN copy = "part_000"
  ELSE TRUE

NotRendering == [pc |-> 0, initialized |-> FALSE, early |-> {}, outcome |-> "none"]
Rendering == [pc |-> 1, initialized |-> FALSE, early |-> {}, outcome |-> "rendering"]

RenderIdle ==
  /\ render = [copy \in Copies |-> NotRendering]
  /\ lowering = "const"

AggIdle ==
  /\ historicalImages = <<>>
  /\ buckets = <<>>
  /\ bucketsTsx = <<>>
  /\ aggDone = FALSE
  /\ ViewIdle
  /\ RenderIdle

GeoIdle ==
  /\ geoKind = "none"
  /\ geoDone = {}
  /\ wkt = <<>>
  /\ wktItems = NoItems
  /\ coords = null
  /\ selectedPolygonCoords = <<>>
  /\ featureGroupRef = [current |-> FALSE, layers |-> <<>>]
  /\ drawnItemsCount = 0
  /\ polygonDataForAnalysis = null
  /\ isAnalyzerModalOpen = FALSE
  /\ geoJson = NoGeoJson
  /\ wktLocation = null
  /\ selectedEcosystem = null
  /\ locationName = ""
  /\ geocodedMarker = null
  /\ mapCenter = null
  /\ center = null

Pending == [state |-> "pending", ok |-> FALSE, body |-> null]

\* useState initial values of HistoricoPage, before its effect has run
HistoricoIdle ==
  /\ historicoEcosystems = <<>>
  /\ historicoImages = <<>>
  /\ loading = TRUE
  /\ modalError = "null"
  /\ fetchData = "notCalled"
  /\ ecoRes = Pending
  /\ imgRes = Pending
  /\ ecosystemData = null
  /\ timeouts = 0
  /\ route = "/historico"

\* useState initial values of the modals of MapComponent; no call is waiting
PageIdle ==
  /\ HistoricoIdle
  /\ activeModal = "null"
  /\ isAnalysisHistoryModalOpen = FALSE
  /\ selectedEcosystemForHistory = null
  /\ selectedImage = null
  /\ isLoadingHistory = FALSE
  /\ viewHistoryCalls = <<>>
  /\ geocodeCalls = <<>>
  /\ lastHandler = "none"
  /\ removing = FALSE

\* useState / useRef initial values of MapComponent, with the scenario's input
InitGeoState ==
  /\ geoDone = {}
  /\ coords = null
  /\ drawnItemsCount = 0
  /\ polygonDataForAnalysis = null
  /\ isAnalyzerModalOpen = FALSE
  /\ wktLocation = null
  /\ selectedEcosystem = null
  /\ locationName = ""
  /\ geocodedMarker = null
  /\ mapCenter = null
  /\ center = null

\* an ecosystem location text arrives
InitText ==
  /\ geoKind = "text"
  /\ \E env \in WktEnvelopes, items \in SeqsOf(WktItems, 1, MaxPairs) \cup {ExampleSquareItems} :
       /\ wktItems = [env |-> env, items |-> items]
       /\ wkt = WktTextOf(env, items)
  /\ selectedPolygonCoords = <<>>
  /\ featureGroupRef = [current |-> TRUE, layers |-> <<>>]
  /\ geoJson = NoGeoJson
  /\ InitGeoState

\* a ring is selected on the map
InitRing ==
  /\ geoKind = "ring"
  /\ wkt = <<>>
  /\ wktItems = NoItems
  /\ selectedPolygonCoords \in SeqsOf(Vertices, 1, MaxRing) \cup {ExampleSquare}
  /\ featureGroupRef \in {[current |-> c, layers |-> <<>>] : c \in BOOLEAN}
  /\ geoJson = NoGeoJson
  /\ InitGeoState

\* a feature collection is handed over
InitGeoJson ==
  /\ geoKind = "geojson"
  /\ wkt = <<>>
  /\ wktItems = NoItems
  /\ selectedPolygonCoords = <<>>
  /\ featureGroupRef = [current |-> TRUE, layers |-> <<>>]
  /\ geoJson \in FeatureCollections
  /\ InitGeoState

InitGeo == (InitText \/ InitRing \/ InitGeoJson) /\ AggIdle /\ PageIdle /\ ecosystems = Ecosystems

\* parseWKTPolygon(ecosystem.location)
ParseWKT ==
  /\ geoKind = "text"
  /\ "parse" \notin geoDone
  /\ coords' = parseWKTPolygon(wkt)
  /\ geoDone' = geoDone \cup {"parse"}
  /\ UNCHANGED <<geoKind, wkt, wktItems, selectedPolygonCoords, featureGroupRef, drawnItemsCount,
                 polygonDataForAnalysis, isAnalyzerModalOpen, geoJson, wktLocation>>
  /\ UNCHANGED selectVars
  /\ UNCHANGED aggVars
  /\ UNCHANGED pageVars

\* convertToWKT(geoJson)
ConvertToWKT ==
  /\ geoKind = "geojson"
  /\ "convert" \notin geoDone
  /\ wktLocation' = convertToWKT(geoJson)
  /\ geoDone' = geoDone \cup {"convert"}
  /\ UNCHANGED <<geoKind, wkt, wktItems, coords, selectedPolygonCoords, featureGroupRef, drawnItemsCount,
                 polygonDataForAnalysis, isAnalyzerModalOpen, geoJson>>
  /\ UNCHANGED selectVars
  /\ UNCHANGED aggVars
  /\ UNCHANGED pageVars

\* the body of handleCreateNewAnalysisFromPolygon(ecosystem, polygonCoords)
createNewAnalysisFromPolygon(ecosystem, polygonCoords) ==
  /\ featureGroupRef' =
       IF featureGroupRef.current
       THEN [featureGroupRef EXCEPT !.layers = <<LPolygon(polygonCoords)>>]
       ELSE featureGroupRef
  /\ drawnItemsCount' = IF featureGroupRef.current THEN 1 ELSE drawnItemsCount
  /\ polygonDataForAnalysis' =
       Some([geoJson |-> polygonDataOf(polygonCoords).geoJson,
             wktLocation |-> polygonDataOf(polygonCoords).wktLocation,
             drawnItemsCount |-> polygonDataOf(polygonCoords).drawnItemsCount,
             locationName |-> ecosystem.name,
             ecosystemId |-> ecosystem.id])
  /\ isAnalyzerModalOpen' = TRUE

handleCreateNewAnalysisFromPolygon(ecosystem) ==
  /\ geoKind = "ring"
  /\ "create" \notin geoDone
  /\ createNewAnalysisFromPolygon(ecosystem, selectedPolygonCoords)
  /\ geoDone' = geoDone \cup {"create"}
  /\ UNCHANGED <<geoKind, wkt, wktItems, coords, selectedPolygonCoords, geoJson, wktLocation>>
  /\ UNCHANGED selectVars
  /\ UNCHANGED aggVars
  /\ UNCHANGED pageVars

\* parseWKTPolygon applied to the wktLocation the handler built
ParseWktLocation ==
  /\ "create" \in geoDone
  /\ "parse" \notin geoDone
  /\ wkt' = polygonDataForAnalysis.val.wktLocation
  /\ coords' = parseWKTPolygon(wkt')
  /\ geoDone' = geoDone \cup {"parse"}
  /\ UNCHANGED <<geoKind, wktItems, selectedPolygonCoords, featureGroupRef, drawnItemsCount,
                 polygonDataForAnalysis, isAnalyzerModalOpen, geoJson, wktLocation>>
  /\ UNCHANGED selectVars
  /\ UNCHANGED aggVars
  /\ UNCHANGED pageVars

\* convertToWKT applied to the geoJson the handler built
ConvertPolygonData ==
  /\ "create" \in geoDone
  /\ "convert" \notin geoDone
  /\ geoJson' = polygonDataForAnalysis.val.geoJson
  /\ wktLocation' = convertToWKT(geoJson')
  /\ geoDone' = geoDone \cup {"convert"}
  /\ UNCHANGED <<geoKind, wkt, wktItems, coords, selectedPolygonCoords, featureGroupRef, drawnItemsCount,
                 polygonDataForAnalysis, isAnalyzerModalOpen>>
  /\ UNCHANGED selectVars
  /\ UNCHANGED aggVars
  /\ UNCHANGED pageVars

\* ecosystems.find((e) => e.id.toString() === ecosystemId): the ecosystems found
findEcosystem(ecosystemId) == {e \in ecosystems : NumberToString(Num(e.id, 0)) = ecosystemId}

Selection(ecosystem, name, polygonCoords, marker, centre) ==
  [selectedEcosystem |-> ecosystem, locationName |-> name, selectedPolygonCoords |-> polygonCoords,
   geocodedMarker |-> marker, mapCenter |-> centre]

\* if (coords) {...} else {...}, for the result of parseWKTPolygon(ecosystem.location)
selectParsed(ecosystem, parsed) ==
  IF ~parsed.isNull
  THEN Selection(Some(ecosystem), ecosystem.name, parsed.val, null, Some(getPolygonCenter(parsed.val)))
  ELSE Selection(Some(ecosystem), ecosystem.name, <<>>, null, null)

\* if (ecosystem.location) {...} else {...}: the states the handler can leave, one
\* for each answer of geocodeLocationByName where it is asked
selectEcosystem(ecosystem) ==
  IF locationOf(ecosystem) # <<>>
  THEN {selectParsed(ecosystem, parseWKTPolygon(locationOf(ecosystem)))}
  ELSE {Selection(Some(ecosystem), ecosystem.name, <<>>, geocodedCoords, geocodedCoords) :
          geocodedCoords \in GeocodedPlaces}

selectFound(found) ==
  IF found = {}
  THEN {Selection(selectedEcosystem, locationName, selectedPolygonCoords, geocodedMarker, mapCenter)}
  ELSE UNION {selectEcosystem(ecosystem) : ecosystem \in found}

\* handleEcosystemSelect(ecosystemId), once in a scenario; the answer of
\* geocodeLocationByName, which the handler awaits, is taken with the call
handleEcosystemSelect(ecosystemId) ==
  /\ geoKind = "text"
  /\ "select" \notin geoDone
  /\ featureGroupRef' = IF featureGroupRef.current THEN [featureGroupRef EXCEPT !.layers = <<>>] ELSE featureGroupRef
  /\ drawnItemsCount' = IF featureGroupRef.current THEN 0 ELSE drawnItemsCount
  /\ \E after \in IF ecosystemId = <<"n","o","n","e">>
                   THEN {Selection(null, "", <<>>, null, null)}
                   ELSE selectFound(findEcosystem(ecosystemId)) :
       /\ selectedEcosystem' = after.selectedEcosystem
       /\ locationName' = after.locationName
       /\ selectedPolygonCoords' = after.selectedPolygonCoords
       /\ geocodedMarker' = after.geocodedMarker
       /\ mapCenter' = after.mapCenter
  /\ geoDone' = geoDone \cup {"select"}
  /\ UNCHANGED <<geoKind, wkt, wktItems, coords, polygonDataForAnalysis, isAnalyzerModalOpen, geoJson,
                 wktLocation, center>>
  /\ UNCHANGED aggVars
  /\ UNCHANGED pageVars

\* getPolygonCenter applied to a ring
ApplyGetPolygonCenter ==
  /\ geoKind = "ring"
  /\ "center" \notin geoDone
  /\ center' = Some(getPolygonCenter(selectedPolygonCoords))
  /\ geoDone' = geoDone \cup {"center"}
  /\ UNCHANGED <<geoKind, wkt, wktItems, coords, selectedPolygonCoords, featureGroupRef, drawnItemsCount,
                 polygonDataForAnalysis, isAnalyzerModalOpen, geoJson, wktLocation>>
  /\ UNCHANGED <<selectedEcosystem, locationName, geocodedMarker, mapCenter>>
  /\ UNCHANGED aggVars
  /\ UNCHANGED pageVars

NextGeo ==
  \/ ParseWKT
  \/ ConvertToWKT
  \/ \E ecosystem \in Ecosystems : handleCreateNewAnalysisFromPolygon(ecosystem)
  \/ ParseWktLocation
  \/ ConvertPolygonData
  \/ \E ecosystemId \in SelectorValues : handleEcosystemSelect(ecosystemId)
  \/ ApplyGetPolygonCenter

SpecGeo == InitGeo /\ [][NextGeo]_vars

\* ---------------------------------------------------------------- geometry claims

Parsed == geoKind = "text" /\ "parse" \in geoDone
Converted == geoKind = "geojson" /\ "convert" \in geoDone
Created == geoKind = "ring" /\ "create" \in geoDone

\* the item is a well-formed <lng> <lat> pair
IsPair(item) == item.tokens = 2 /\ item.nonNumeric = {}
AllPairs(items) == \A i \in 1..Len(items) : IsPair(items[i])
\* entry i is (lat_i, lng_i)
SwappedPairs(items) == [i \in 1..Len(items) |-> <<items[i].lat, items[i].lng>>]

ExampleWkt == <<"P","O","L","Y","G","O","N"," ","(","(","1","0"," ","2","0",","," ","3","0"," ","4","0",","," ","1","0"," ","2","0",")",")">>
ExampleCoords == <<<<Num(2, 1), Num(1, 1)>>, <<Num(4, 1), Num(3, 1)>>, <<Num(2, 1), Num(1, 1)>>>>

\* C1: a text that holds POLYGON ((<lng> <lat>, ...)), in any letter case, with or
\* without the SRID prefix, parses to one (lat, lng) entry per pair, in order.
C1_ParseSwapsEachPair ==
  (Parsed /\ wktItems.env.present /\ AllPairs(wktItems.items))
    => (~coords.isNull /\ coords.val = SwappedPairs(wktItems.items))

\* the spec's example: "POLYGON ((10 20, 30 40, 10 20))" gives [[20,10],[40,30],[20,10]]
C1_Witness == Parsed /\ wkt = ExampleWkt /\ ~coords.isNull /\ coords.val = ExampleCoords

\* C2 as claimed: an absent pattern or ANY non-numeric token of any item gives null.
C2_AnyBadTokenGivesNull ==
  (Parsed /\ (\/ ~wktItems.env.present
              \/ \E i \in 1..Len(wktItems.items) :
                    wktItems.items[i].tokens < 2 \/ wktItems.items[i].nonNumeric # {}))
    => coords.isNull

\* C2 as amended: an absent pattern, or a first or second token of any item that is
\* missing or not a number, gives null; a result that is not null holds every item.
C2_ParseFailsAtomically ==
  /\ (Parsed /\ (\/ ~wktItems.env.present
                 \/ \E i \in 1..Len(wktItems.items) :
                       \/ wktItems.items[i].tokens < 2
                       \/ wktItems.items[i].nonNumeric \cap {1, 2} # {}))
       => coords.isNull
  /\ (Parsed /\ ~coords.isNull) => Len(coords.val) = Len(wktItems.items)

\* two good pairs followed by a bad one: nothing of the good ones is returned
C2_Witness ==
  /\ Parsed /\ wktItems.env.present /\ Len(wktItems.items) = 3
  /\ IsPair(wktItems.items[1]) /\ IsPair(wktItems.items[2])
  /\ wktItems.items[3].nonNumeric = {1}
  /\ coords.isNull

\* C3: writing a ring of at least 3 vertices as SRID=4326;POLYGON ((lng lat, ...))
\* and parsing that text gives the ring back.
C3_WktRoundTrip ==
  (Created /\ "parse" \in geoDone /\ Len(selectedPolygonCoords) >= 3)
    => (~coords.isNull /\ coords.val = selectedPolygonCoords)

\* a ring with a negative, a fractional and an exponent-formatted coordinate came back
C3_Witness ==
  /\ Created /\ "parse" \in geoDone /\ Len(selectedPolygonCoords) = 3
  /\ selectedPolygonCoords[1] = <<Num(1925, -2), Num(-995, -1)>>
  /\ selectedPolygonCoords[2] = <<Num(1, 21), Num(2, -7)>>
  /\ ~coords.isNull /\ coords.val = selectedPolygonCoords

IsPolygonFeature(f) == f.hasGeometry /\ f.geometry.type = "Polygon"
\* the position of the first Polygon feature, 0 when there is none
FirstPolygon(fs) == FirstWhere({i \in 1..Len(fs) : IsPolygonFeature(fs[i])})
OnlyFeature(f) == [hasFeatures |-> TRUE, features |-> <<f>>]

\* C4: the result is that of the first Polygon feature alone, whatever features of
\* another type precede it and whatever features follow it.
C4_FirstPolygonDecides ==
  (Converted /\ FirstPolygon(geoJson.features) # 0
     /\ \A i \in 1..(FirstPolygon(geoJson.features) - 1) : geoJson.features[i].hasGeometry)
    => wktLocation = convertToWKT(OnlyFeature(geoJson.features[FirstPolygon(geoJson.features)]))

RingAText == <<"S","R","I","D","=","4","3","2","6",";","P","O","L","Y","G","O","N"," ","(","(","1","0"," ","2","0",","," ","3","0"," ","4","0",","," ","1","0"," ","2","0",")",")">>
RingBText == <<"S","R","I","D","=","4","3","2","6",";","P","O","L","Y","G","O","N"," ","(","(","-","9","9",".","5"," ","1","9",".","2","5",","," ","0"," ","5",","," ","-","9","9",".","5"," ","1","9",".","2","5",")",")">>

\* a Point, then the polygon of RingA, then the polygon of RingB: RingA is written
C4_Witness ==
  /\ Converted /\ Len(geoJson.features) = 3
  /\ geoJson.features[1].geometry.type = "Point"
  /\ geoJson.features[2].geometry.coordinates = <<RingA>> /\ IsPolygonFeature(geoJson.features[2])
  /\ geoJson.features[3].geometry.coordinates = <<RingB, HoleC>> /\ IsPolygonFeature(geoJson.features[3])
  /\ ~wktLocation.isNull /\ wktLocation.val = RingAText

\* the text of a first ring, written out by hand
WrittenRing(ring) == IF ring = RingA THEN RingAText ELSE RingBText

\* C5: a result that is not null is exactly SRID=4326;POLYGON ((c0 c1, ...)) of the
\* chosen polygon's first ring, pairs in the input's own order; holes are not written.
C5_ExactOuterRingText ==
  (Converted /\ ~wktLocation.isNull)
    => /\ FirstPolygon(geoJson.features) # 0
       /\ wktLocation.val =
            WrittenRing(geoJson.features[FirstPolygon(geoJson.features)].geometry.coordinates[1])

\* the polygon with a hole is the chosen one and only its outer ring is written
C5_Witness ==
  /\ Converted /\ geoJson.features # <<>>
  /\ IsPolygonFeature(geoJson.features[1]) /\ geoJson.features[1].geometry.coordinates = <<RingB, HoleC>>
  /\ ~wktLocation.isNull /\ wktLocation.val = RingBText

\* the loop reaches feature i: every earlier feature has a geometry of another type
Visited(fs, i) == \A j \in 1..(i - 1) : fs[j].hasGeometry /\ fs[j].geometry.type # "Polygon"

\* C6 as claimed: no Polygon feature, or ANY visited feature without geometry or
\* without coordinates, gives null.
C6_AnyMissingFieldGivesNull ==
  (geoKind = "geojson" /\ "convert" \in geoDone
     /\ (\/ FirstPolygon(geoJson.features) = 0
         \/ \E i \in 1..Len(geoJson.features) :
               /\ Visited(geoJson.features, i)
               /\ (~geoJson.features[i].hasGeometry \/ ~geoJson.features[i].geometry.hasCoordinates)))
    => wktLocation.isNull

\* C6 as amended: no Polygon feature, a visited feature without geometry, or a
\* visited Polygon feature without coordinates (or without a ring), gives null.
C6_NullWhenNothingToConvert ==
  (Converted
     /\ (\/ FirstPolygon(geoJson.features) = 0
         \/ \E i \in 1..Len(geoJson.features) :
               /\ Visited(geoJson.features, i)
               /\ \/ ~geoJson.features[i].hasGeometry
                  \/ /\ geoJson.features[i].geometry.type = "Polygon"
                     /\ \/ ~geoJson.features[i].geometry.hasCoordinates
                        \/ geoJson.features[i].geometry.coordinates = <<>>))
    => wktLocation.isNull

\* a Point, then a feature without geometry, then a good polygon: null
C6_Witness ==
  /\ Converted /\ Len(geoJson.features) = 3
  /\ geoJson.features[1].geometry.type = "Point"
  /\ ~geoJson.features[2].hasGeometry
  /\ IsPolygonFeature(geoJson.features[3]) /\ geoJson.features[3].geometry.coordinates = <<RingA>>
  /\ wktLocation.isNull

\* the feature collection a straight re-serialisation would start from: P as stored
StraightGeoJson(ring) ==
  [hasFeatures |-> TRUE,
   features |-> <<[hasGeometry |-> TRUE, geometry |-> Geometry("Polygon", TRUE, <<ring>>)]>>]

OnDiagonal(ring) == \A i \in 1..Len(ring) : ring[i][1] = ring[i][2]

\* the geoJson the handler built holds each stored pair swapped to (lng, lat)
HoldsSwappedPairs ==
  LET ring == polygonDataForAnalysis.val.geoJson.features[1].geometry.coordinates[1]
  IN /\ Len(ring) = Len(selectedPolygonCoords)
     /\ \A i \in 1..Len(ring) :
          ring[i] = <<selectedPolygonCoords[i][2], selectedPolygonCoords[i][1]>>

\* C7 as claimed: the built geoJson is swapped, convertToWKT of it is the hand-built
\* wktLocation, and convertToWKT of the un-swapped pairs is NEVER that string.
C7_StraightNeverReproduces ==
  (Created /\ "convert" \in geoDone)
    => /\ HoldsSwappedPairs
       /\ wktLocation = Some(polygonDataForAnalysis.val.wktLocation)
       /\ convertToWKT(StraightGeoJson(selectedPolygonCoords)) # wktLocation

\* C7 as amended: the same, and the un-swapped pairs reproduce the string exactly
\* when every vertex of the ring has its latitude equal to its longitude.
C7_ReinversionNeeded ==
  (Created /\ "convert" \in geoDone)
    => /\ HoldsSwappedPairs
       /\ wktLocation = Some(polygonDataForAnalysis.val.wktLocation)
       /\ (convertToWKT(StraightGeoJson(selectedPolygonCoords)) = wktLocation)
            <=> OnDiagonal(selectedPolygonCoords)

\* a three-vertex ring off the diagonal went through the handler and convertToWKT
C7_Witness ==
  /\ Created /\ "convert" \in geoDone
  /\ selectedPolygonCoords = ExampleCoords
  /\ ~wktLocation.isNull /\ wktLocation.val = RingAText
  /\ polygonDataForAnalysis.val.wktLocation = RingAText

\* ---------------------------------------------------------------- aggregation scenario

InitAgg ==
  /\ historicalImages \in SeqsOf(HistoricalImages, 0, MaxRecords)
  /\ buckets = <<>>
  /\ bucketsTsx = <<>>
  /\ aggDone = FALSE
  /\ ViewIdle
  /\ RenderIdle
  /\ GeoIdle
  /\ PageIdle
  /\ ecosystems = Ecosystems

\* the useMemo callbacks that compute monthlyAverages, in both copies of the modal
ComputeMonthlyAverages ==
  /\ ~aggDone
  /\ buckets' = monthlyAverages(historicalImages)
  /\ bucketsTsx' = monthlyAverages_tsx(historicalImages)
  /\ historicalImages' = imagesAfterGrouping(historicalImages)
  /\ aggDone' = TRUE
  /\ aggStep' = 1
  /\ UNCHANGED viewVars
  /\ UNCHANGED renderVars
  /\ UNCHANGED geoVars
  /\ UNCHANGED pageVars

\* the useMemo callbacks that compute trends
ComputeTrends ==
  /\ aggStep = 1
  /\ trendsView' = trends(buckets)
  /\ trendsViewTsx' = trends_tsx(bucketsTsx)
  /\ aggStep' = 2
  /\ UNCHANGED <<historicalImages, buckets, bucketsTsx, aggDone>>
  /\ UNCHANGED <<chartView, chartViewTsx, tableView, tableViewTsx, csvFile, csvFileTsx>>
  /\ UNCHANGED renderVars
  /\ UNCHANGED geoVars
  /\ UNCHANGED pageVars

\* what the charts are fed: chartData (useMemo) in AnalysisHistoryModal.tsx, the
\* bars mapped from monthlyAverages in src/unnamed/part_000
ComputeChartData ==
  /\ aggStep = 2
  /\ chartView' = chartBars(buckets)
  /\ chartViewTsx' = chartData_tsx(bucketsTsx).data
  /\ bucketsTsx' = chartData_tsx(bucketsTsx).monthlyAverages
  /\ aggStep' = 3
  /\ UNCHANGED <<historicalImages, buckets, aggDone>>
  /\ UNCHANGED <<trendsView, trendsViewTsx, tableView, tableViewTsx, csvFile, csvFileTsx>>
  /\ UNCHANGED renderVars
  /\ UNCHANGED geoVars
  /\ UNCHANGED pageVars

\* the rows of the monthly table
RenderTable ==
  /\ aggStep = 3
  /\ tableView' = tableRows(buckets)
  /\ tableViewTsx' = tableRows_tsx(bucketsTsx)
  /\ aggStep' = 4
  /\ UNCHANGED <<historicalImages, buckets, bucketsTsx, aggDone>>
  /\ UNCHANGED <<trendsView, trendsViewTsx, chartView, chartViewTsx, csvFile, csvFileTsx>>
  /\ UNCHANGED renderVars
  /\ UNCHANGED geoVars
  /\ UNCHANGED pageVars

\* the export button is clicked (in a browser: window and document are defined)
exportToCSV(ecosystemName) ==
  /\ aggStep = 4
  /\ csvFile' = [download |-> downloadName(ecosystemName), content |-> csvContent(buckets)]
  /\ csvFileTsx' = [download |-> downloadName(ecosystemName), content |-> csvContent_tsx(bucketsTsx)]
  /\ aggStep' = 5
  /\ UNCHANGED <<historicalImages, buckets, bucketsTsx, aggDone>>
  /\ UNCHANGED <<trendsView, trendsViewTsx, chartView, chartViewTsx, tableView, tableViewTsx>>
  /\ UNCHANGED renderVars
  /\ UNCHANGED geoVars
  /\ UNCHANGED pageVars

NextAgg ==
  \/ ComputeMonthlyAverages
  \/ ComputeTrends
  \/ ComputeChartData
  \/ RenderTable
  \/ \E ecosystem \in Ecosystems : exportToCSV(ecosystem.name)

SpecAgg == InitAgg /\ [][NextAgg]_vars

\* ---------------------------------------------------------------- render scenario

MaxRendered == 2   \* records of a rendered image collection

\* AnalysisHistoryModal is rendered with some records, in a build that keeps const
\* or lowers it to var
InitRender ==
  /\ historicalImages \in SeqsOf(HistoricalImages, 0, MaxRendered)
  /\ buckets = <<>>
  /\ bucketsTsx = <<>>
  /\ aggDone = FALSE
  /\ ViewIdle
  /\ render = [copy \in Copies |-> Rendering]
  /\ lowering \in {"const", "var"}
  /\ GeoIdle
  /\ PageIdle
  /\ ecosystems = Ecosystems

\* const monthlyAverages = useMemo(...): the binding is initialized
InitializeMonthlyAverages(copy) ==
  /\ render[copy].outcome = "rendering"
  /\ BodyOf(copy)[render[copy].pc] = "monthlyAverages"
  /\ render' = [render EXCEPT ![copy].pc = @ + 1, ![copy].initialized = TRUE]
  /\ buckets' = IF copy = "part_000" THEN monthlyAverages(historicalImages) ELSE buckets
  /\ bucketsTsx' = IF copy = "tsx" THEN monthlyAverages_tsx(historicalImages) ELSE bucketsTsx
  /\ UNCHANGED <<historicalImages, aggDone, aggStep, viewVars, lowering>>
  /\ UNCHANGED geoVars
  /\ UNCHANGED pageVars

\* any other statement is evaluated.  Reading monthlyAverages before its const is
\* initialized throws a ReferenceError, which ends the render; with const lowered
\* to var the read gives undefined and the render goes on
EvaluateStatement(copy) ==
  /\ render[copy].outcome = "rendering"
  /\ BodyOf(copy)[render[copy].pc] # "monthlyAverages"
  /\ LET statement == BodyOf(copy)[render[copy].pc]
         early == ReadsMonthlyAverages(copy, statement) /\ ~render[copy].initialized
     IN render' =
          [render EXCEPT
             ![copy].early = IF early THEN @ \cup {statement} ELSE @,
             ![copy].outcome = IF early /\ lowering = "const" THEN "ReferenceError"
                               ELSE IF statement = "return" THEN "rendered"
                               ELSE @,
             ![copy].pc = IF (early /\ lowering = "const") \/ statement = "return" THEN @ ELSE @ + 1]
  /\ UNCHANGED <<historicalImages, buckets, bucketsTsx, aggDone, aggStep, viewVars, lowering>>
  /\ UNCHANGED geoVars
  /\ UNCHANGED pageVars

\* the component is rendered again: the body runs from its first statement, with
\* fresh bindings
Rerender(copy) ==
  /\ render[copy].outcome = "rendered"
  /\ render' = [render EXCEPT ![copy] = Rendering]
  /\ UNCHANGED <<historicalImages, buckets, bucketsTsx, aggDone, aggStep, viewVars, lowering>>
  /\ UNCHANGED geoVars
  /\ UNCHANGED pageVars

NextRender ==
  \/ \E copy \in Copies : InitializeMonthlyAverages(copy)
  \/ \E copy \in Copies : EvaluateStatement(copy)
  \/ \E copy \in Copies : Rerender(copy)

SpecRender == InitRender /\ [][NextRender]_vars

\* ---------------------------------------------------------------- aggregation claims

\* the month key of each capture date, written out by hand
WrittenKey(d) ==
  IF d = Date(2023, 12) THEN <<"2","0","2","3","-","1","2">>
  ELSE IF d = Date(2024, 1) THEN <<"2","0","2","4","-","0","1">>
  ELSE IF d = Date(2024, 2) THEN <<"2","0","2","4","-","0","2">>
  ELSE IF d = Date(999, 6) THEN <<"9","9","9","-","0","6">>
  ELSE <<"N","a","N","-","N","a","N">>

ImageDates == {historicalImages[i].capture_date : i \in 1..Len(historicalImages)}
\* the records of the month a bucket stands for
RecordsOf(b) == {i \in 1..Len(historicalImages) : WrittenKey(historicalImages[i].capture_date) = b.monthKey}

RECURSIVE SumCount(_)
SumCount(bs) == IF bs = <<>> THEN 0 ELSE Head(bs).count + SumCount(Tail(bs))

Conserved(bs) ==
  /\ SumCount(bs) = Len(historicalImages)
  /\ \A j \in 1..Len(bs) : bs[j].count > 0 /\ bs[j].count = Cardinality(RecordsOf(bs[j]))
  /\ \A i \in 1..Len(historicalImages) :
       Cardinality({j \in 1..Len(bs) : i \in RecordsOf(bs[j])}) = 1

\* C8: every record falls in exactly one month bucket: the counts add up to the
\* number of records and no bucket is empty.
C8_RecordsConserved == aggDone => (Conserved(buckets) /\ Conserved(bucketsTsx))

\* three records, two of one month and one without a readable date, in two buckets
C8_Witness ==
  /\ aggDone /\ Len(historicalImages) = 3 /\ Len(buckets) = 2 /\ Len(bucketsTsx) = 2
  /\ InvalidDate \in ImageDates
  /\ buckets[1].count + buckets[2].count = 3

\* the whole value of a percentage, a missing one counted as 0
WholeValue(v) == IF v.k = "num" THEN v.m * Pow10(v.e) ELSE 0

RECURSIVE TotalVegetation(_)
\* the sum of the vegetation values of a set of record positions
TotalVegetation(S) ==
  IF S = {} THEN 0
  ELSE LET i == CHOOSE x \in S : TRUE
       IN WholeValue(historicalImages[i].vegetation_percentage) + TotalVegetation(S \ {i})

RECURSIVE TotalWater(_)
\* the sum of the water values of a set of record positions
TotalWater(S) ==
  IF S = {} THEN 0
  ELSE LET i == CHOOSE x \in S : TRUE
       IN WholeValue(historicalImages[i].water_percentage) + TotalWater(S \ {i})

\* total / n rounded to 2 decimals, halves up
RoundedAverage(total, n) == Normalize((200 * total + n) \div (2 * n), -2)

\* the percentages of these records are whole numbers or missing
WholeRecords(S) ==
  \A i \in S : /\ historicalImages[i].vegetation_percentage.e >= 0
               /\ historicalImages[i].water_percentage.e >= 0

AveragesRight(bs) ==
  \A j \in 1..Len(bs) : WholeRecords(RecordsOf(bs[j])) =>
    /\ bs[j].avgVegetation = RoundedAverage(TotalVegetation(RecordsOf(bs[j])), Cardinality(RecordsOf(bs[j])))
    /\ bs[j].avgWater = RoundedAverage(TotalWater(RecordsOf(bs[j])), Cardinality(RecordsOf(bs[j])))

DateOfBucket(b) == CHOOSE d \in CaptureDates : WrittenKey(d) = b.monthKey
IsLater(d1, d2) == d1.year > d2.year \/ (d1.year = d2.year /\ d1.month > d2.month)

DescendingByMonth(bs) ==
  /\ Len(bs) = Cardinality(ImageDates)
  /\ \A j \in 1..(Len(bs) - 1) : IsLater(DateOfBucket(bs[j]), DateOfBucket(bs[j + 1]))

AllDatesValid == \A d \in ImageDates : d.valid
FourDigitYears == \A d \in ImageDates : d.valid /\ d.year >= 1000 /\ d.year <= 9999

\* C10: with parseable capture dates there is one bucket per distinct (year, month)
\* and the buckets are strictly descending by (year, month), most recent first.
C10_BucketsDescendByMonth ==
  (aggDone /\ AllDatesValid) => (DescendingByMonth(buckets) /\ DescendingByMonth(bucketsTsx))

\* what the sort on the month key does give: the claimed order when every year has
\* four digits
DescendingForFourDigitYears ==
  (aggDone /\ FourDigitYears) => (DescendingByMonth(buckets) /\ DescendingByMonth(bucketsTsx))

\* the orders the records can arrive in
Permutations(n) == {p \in [1..n -> 1..n] : \A i, j \in 1..n : p[i] = p[j] => i = j}
Permuted(images, p) == [i \in 1..Len(images) |-> images[p[i]]]
Arrivals == {Permuted(historicalImages, p) : p \in Permutations(Len(historicalImages))}
\* two rearrangements that every order can be reached by: the first two records
\* exchanged, and the first record moved to the end
Exchanged(images) == IF Len(images) < 2 THEN images ELSE <<images[2], images[1]>> \o SubSeq(images, 3, Len(images))
Rotated(images) == IF images = <<>> THEN images ELSE Tail(images) \o <<Head(images)>>

\* a bucket without its averages
Framed(b) == [monthKey |-> b.monthKey, monthName |-> b.monthName, count |-> b.count]
SameFrame(bs, cs) == Len(bs) = Len(cs) /\ \A j \in 1..Len(bs) : Framed(bs[j]) = Framed(cs[j])
SameWholeAverages(bs, cs) ==
  \A j \in 1..Len(bs) : WholeRecords(RecordsOf(bs[j])) =>
    bs[j].avgVegetation = cs[j].avgVegetation /\ bs[j].avgWater = cs[j].avgWater
SameButForRounding(bs, cs) == SameFrame(bs, cs) /\ SameWholeAverages(bs, cs)

\* C11 as stated: whatever order the records arrive in, the aggregation returns the
\* same bucket sequence: same keys, same order, same averages, same counts.
C11_ArrivalOrderIndependent ==
  aggStep = 1 => \A images \in Arrivals : monthlyAverages(images) = buckets

\* C11: rearranging the records leaves the keys, their order, the month names and
\* the counts as they are, and the averages of every month whose percentages are
\* whole numbers or missing.  It is stated for the two rearrangements that generate
\* all others, and the collection ranges over every sequence of records.
C11_OrderIndependentButForRounding ==
  aggStep = 1 => \A images \in {Exchanged(historicalImages), Rotated(historicalImages)} :
                   SameButForRounding(buckets, monthlyAverages(images))

\* three records of two months that arrived latest month last, and three records
\* of one month whose average depends on the order they are added up in
C11_Witness ==
  /\ aggStep = 1 /\ Len(historicalImages) = 3
  /\ historicalImages[1].capture_date = Date(2023, 12)
  /\ historicalImages[2].capture_date = Date(2024, 1)
  /\ historicalImages[3].capture_date = Date(2024, 1)
  /\ historicalImages[2].vegetation_percentage # historicalImages[3].vegetation_percentage
  /\ Len(buckets) = 2 /\ buckets[1].count = 2

\* an average, in hundredths
Hundredths(v) == v.m * Pow10(v.e + 2)
Direction(recent, oldest) == IF recent > oldest THEN "up" ELSE IF recent < oldest THEN "down" ELSE "stable"

TrendsRight(view, bs) ==
  IF Len(bs) < 2 THEN view = [vegetation |-> "stable", water |-> "stable"]
  ELSE /\ view.vegetation = Direction(Hundredths(bs[1].avgVegetation), Hundredths(bs[Len(bs)].avgVegetation))
       /\ view.water = Direction(Hundredths(bs[1].avgWater), Hundredths(bs[Len(bs)].avgWater))

\* C12: with fewer than 2 buckets both trends are stable; otherwise each trend is
\* the first bucket of the sequence against the last one: greater gives up, less
\* gives down, equal gives stable, whatever the buckets between them hold.
C12_TrendFromEnds ==
  aggStep >= 2 => (TrendsRight(trendsView, buckets) /\ TrendsRight(trendsViewTsx, bucketsTsx))

\* three months, the middle one unlike the two ends, which are equal: stable
C12_Witness ==
  /\ aggStep >= 2 /\ Len(buckets) = 3
  /\ buckets[1].avgVegetation = buckets[3].avgVegetation
  /\ buckets[2].avgVegetation # buckets[1].avgVegetation
  /\ trendsView.vegetation = "stable" /\ trendsViewTsx.vegetation = "stable"

\* C13 as stated: the two copies take opposite ends of the bucket sequence as the
\* first one, so where one reports a rising or a falling trend the other reports
\* a different one.
C13_CopiesTakeOppositeEnds ==
  /\ (aggStep >= 2 /\ trendsView.vegetation # "stable") => trendsViewTsx.vegetation # trendsView.vegetation
  /\ (aggStep >= 2 /\ trendsView.water # "stable") => trendsViewTsx.water # trendsView.water

WithoutShortName(b) ==
  [monthKey |-> b.monthKey, monthName |-> b.monthName, avgVegetation |-> b.avgVegetation,
   avgWater |-> b.avgWater, count |-> b.count]

\* C13: the two copies return the same buckets in the same order (the copy in
\* src/unnamed/part_000 adds shortName) and report the same trends.
C13_CopiesAgree ==
  /\ aggDone => /\ Len(buckets) = Len(bucketsTsx)
                /\ \A j \in 1..Len(buckets) : WithoutShortName(buckets[j]) = bucketsTsx[j]
  /\ aggStep >= 2 => trendsView = trendsViewTsx

\* two months with a rising vegetation average: both copies say up
C13_Witness ==
  /\ aggStep >= 2 /\ Len(buckets) = 2 /\ Len(bucketsTsx) = 2
  /\ Hundredths(buckets[1].avgVegetation) > Hundredths(buckets[2].avgVegetation)
  /\ trendsView.vegetation = "up" /\ trendsViewTsx.vegetation = "up"

\* the text of a change: its sign, its digits, a percent sign
ChangeTextRight(text, change, diff) ==
  /\ text[Len(text)] = "%"
  /\ (diff > 0) = (text[1] = "+")
  /\ (diff < 0) = (text[1] = "-")
  /\ Number(SubSeq(text, 1, Len(text) - 1)) = change

ChangesRight(rows, bs, prefix) ==
  /\ Len(rows) = Len(bs)
  /\ \A i \in 1..Len(bs) :
       IF i < Len(bs)
       THEN LET dv == Hundredths(bs[i].avgVegetation) - Hundredths(bs[i + 1].avgVegetation)
                dw == Hundredths(bs[i].avgWater) - Hundredths(bs[i + 1].avgWater)
                shown == rows[i].variation
            IN /\ rows[i].vegChange = Normalize(dv, -2)
               /\ rows[i].waterChange = Normalize(dw, -2)
               /\ ~shown.isNull
               /\ ChangeTextRight(SubSeq(shown.val[1], prefix + 1, Len(shown.val[1])), rows[i].vegChange, dv)
               /\ ChangeTextRight(SubSeq(shown.val[2], prefix + 1, Len(shown.val[2])), rows[i].waterChange, dw)
       ELSE rows[i].variation.isNull

\* C14: every row but the last shows its bucket's averages minus those of the next
\* bucket of the sequence, signed, with at most 2 decimals; the last row shows none.
C14_ChangeAgainstNextBucket ==
  aggStep >= 4 => (ChangesRight(tableView, buckets, 0) /\ ChangesRight(tableViewTsx, bucketsTsx, 3))

\* three months with a fall and a rise of the vegetation average between them
C14_Witness ==
  /\ aggStep >= 4 /\ Len(buckets) = 3
  /\ jsLess(tableView[1].vegChange, Num(0, 0)) /\ jsLess(Num(0, 0), tableView[2].vegChange)
  /\ tableView[1].vegChange.e = -2
  /\ tableView[3].variation.isNull /\ tableViewTsx[3].variation.isNull

HeaderLine == <<"M","e","s",",","P","r","o","m","e","d","i","o"," ","L","i","r","i","o"," ","(","%",")",",",
                "P","r","o","m","e","d","i","o"," ","A","g","u","a"," ","(","%",")",",",
                "N","ú","m","e","r","o"," ","d","e"," ","A","n","á","l","i","s","i","s">>

CsvRight(file, bs) ==
  LET lines == splitOn(file.content, "\n")
  IN /\ Len(lines) = Len(bs) + 1
     /\ lines[1] = HeaderLine
     /\ \A i \in 1..Len(bs) :
          LET fields == splitOn(lines[i + 1], ",")
          IN /\ Len(fields) = 4
             /\ fields[1] = bs[i].monthName
             /\ Number(fields[2]) = bs[i].avgVegetation
             /\ Number(fields[3]) = bs[i].avgWater
             /\ AllDigits(fields[4]) /\ DigitsToNat(fields[4]) = bs[i].count

\* C15: the exported text is the header row and then one row per bucket, in the
\* order of the bucket sequence, row i holding bucket i's monthName, avgVegetation,
\* avgWater and count; with no buckets it is the header row alone.
C15_CsvRows == aggStep = 5 => (CsvRight(csvFile, buckets) /\ CsvRight(csvFileTsx, bucketsTsx))

\* two months exported, one of them with a fractional average
C15_Witness ==
  /\ aggStep = 5 /\ Len(buckets) = 2
  /\ buckets[1].avgVegetation.e = -2
  /\ Len(splitOn(csvFile.content, "\n")) = 3 /\ Len(splitOn(csvFileTsx.content, "\n")) = 3

\* computing everything again from the records as they are now gives what was computed
Recomputed ==
  /\ monthlyAverages(historicalImages) = buckets
  /\ monthlyAverages_tsx(historicalImages) = bucketsTsx
  /\ trends(buckets) = trendsView /\ trends_tsx(bucketsTsx) = trendsViewTsx
  /\ chartBars(buckets) = chartView /\ chartData_tsx(bucketsTsx).data = chartViewTsx
  /\ csvContent(buckets) = csvFile.content /\ csvContent_tsx(bucketsTsx) = csvFileTsx.content

BarLabels(bs) == [i \in 1..Len(bs) |-> bs[i].shortName]

PointLabels(bs) == [i \in 1..Len(bs) |-> firstWord(bs[i].monthName)]

\* the chart is fed the buckets oldest first
FedOldestFirst(chart, bs, labels) ==
  /\ Len(chart) = Len(bs)
  /\ \A i \in 1..Len(bs) :
       /\ chart[i].name = labels[Len(bs) + 1 - i]
       /\ chart[i].lirio = bs[Len(bs) + 1 - i].avgVegetation
       /\ chart[i].agua = bs[Len(bs) + 1 - i].avgWater

\* C17: the charts of both copies are fed the buckets in ascending month order,
\* the reverse of the bucket sequence, and the bucket sequence stays descending.
C17_ChartsFedAscending ==
  (aggStep >= 3 /\ FourDigitYears) =>
    /\ FedOldestFirst(chartView, buckets, BarLabels(buckets))
    /\ FedOldestFirst(chartViewTsx, bucketsTsx, PointLabels(bucketsTsx))
    /\ DescendingByMonth(buckets) /\ DescendingByMonth(bucketsTsx)

\* what does hold: chartData of AnalysisHistoryModal.tsx is the reverse of the
\* bucket sequence, which stays as it was
ChartDataReversedInTsx ==
  (aggStep >= 3 /\ FourDigitYears) =>
    (FedOldestFirst(chartViewTsx, bucketsTsx, PointLabels(bucketsTsx)) /\ DescendingByMonth(bucketsTsx) /\ DescendingByMonth(buckets))

\* with a single month there is nothing to reverse, and both charts are as said
OneBucketFedAsSaid ==
  (aggStep >= 3 /\ Len(buckets) = 1) =>
    FedOldestFirst(chartView, buckets, BarLabels(buckets))

\* ---------------------------------------------------------------- map centre claims

\* the first ecosystem of the list, the one with the location text, was selected last
Located ==
  /\ geoKind = "text" /\ "select" \in geoDone
  /\ ~selectedEcosystem.isNull /\ selectedEcosystem.val.id = 1

\* C18: every result of parseWKTPolygon that is not null holds at least one pair,
\* so the list handleEcosystemSelect hands to getPolygonCenter is never empty and
\* the map centre it sets is never 0 / 0.
C18_CenterCallerGuarded ==
  /\ ("parse" \in geoDone /\ ~coords.isNull) => Len(coords.val) >= 1
  /\ Located =>
       /\ mapCenter.isNull = parseWKTPolygon(wkt).isNull
       /\ ~mapCenter.isNull =>
            /\ Len(selectedPolygonCoords) >= 1
            /\ mapCenter.val[1].k # "nan" /\ mapCenter.val[2].k # "nan"

\* the ecosystem located at the spec's example text: its three pairs are handed on
C18_Witness ==
  /\ Located /\ wkt = ExampleWkt
  /\ selectedPolygonCoords = ExampleCoords /\ ~mapCenter.isNull

\* a text with an empty ring, POLYGON (()), is refused: no centre is computed
EmptyRingRefused ==
  (Located /\ Len(wktItems.items) = 1 /\ wktItems.items[1].tokens = 0) =>
    (mapCenter.isNull /\ selectedPolygonCoords = <<>>)

\* a coordinate that is a whole number of quarters, and that number
IsQuarters(v) ==
  /\ v.k = "num" /\ v.m \in -99999..99999
  /\ \/ v.e \in 0..3
     \/ v.e = -1 /\ v.m % 5 = 0
     \/ v.e = -2 /\ v.m % 25 = 0

Quarters(v) ==
  IF v.e >= 0 THEN 4 * v.m * Pow10(v.e)
  ELSE IF v.e = -1 THEN (4 * v.m) \div 10
  ELSE (4 * v.m) \div 100

RECURSIVE QuartersSum(_, _)
\* the sum of the i-th coordinates of the vertices, in quarters
QuartersSum(ring, i) ==
  IF ring = <<>> THEN 0 ELSE Quarters(ring[1][i]) + QuartersSum(Tail(ring), i)

\* the double r is a nearest one to S / (4 n): the two differ by no more than half
\* a unit in the last place of r
NearestToMean(r, S, n) ==
  IF r.k # "num" THEN FALSE
  ELSE IF r.m = <<>> THEN S = 0
  ELSE LET U == r.x + LBitLen(r.m) - 52
           k == 0 - Min(Min(r.x + 2, U), 0)
           got == LShl(LMulSmall(r.m, n), r.x + 2 + k)
           exact == LShl(LOfNat(IF S < 0 THEN 0 - S ELSE S), k)
           dist == IF (S < 0) # (r.s < 0) THEN LAdd(got, exact)
                   ELSE IF LLess(got, exact) THEN LSub(exact, got)
                   ELSE LSub(got, exact)
       IN ~LLess(LShl(LOfNat(n), U + k), dist)

\* c is the centre of the ring
CenterRight(c, ring) ==
  /\ Len(ring) = 1 => c = <<ToDouble(ring[1][1]), ToDouble(ring[1][2])>>
  /\ (\A j \in 1..Len(ring) : IsQuarters(ring[j][1]) /\ IsQuarters(ring[j][2])) =>
       /\ NearestToMean(c[1], QuartersSum(ring, 1), Len(ring))
       /\ NearestToMean(c[2], QuartersSum(ring, 2), Len(ring))

\* C19: for every list of one or more (lat, lng) vertices getPolygonCenter returns
\* the sum of the latitudes over the number of vertices and the sum of the
\* longitudes over the number of vertices, every listed vertex counted once, a
\* repeated closing vertex too (as doubles: the nearest ones to the two means,
\* for vertices whose sums are exact).
C19_CenterIsVertexMean ==
  /\ (geoKind = "ring" /\ "center" \in geoDone) => CenterRight(center.val, selectedPolygonCoords)
  /\ (Located /\ ~mapCenter.isNull) => CenterRight(mapCenter.val, selectedPolygonCoords)

\* the spec's example: the square [[0,0],[0,10],[10,10],[10,0]] has the centre [5,5]
C19_Witness ==
  /\ geoKind = "ring" /\ "center" \in geoDone
  /\ selectedPolygonCoords = ExampleSquare
  /\ center.val = <<Double(1, LOfNat(5), 0), Double(1, LOfNat(5), 0)>>

\* a ring that repeats its first vertex at the end: the vertex counts twice
ClosingVertexCounted ==
  /\ geoKind = "ring" /\ "center" \in geoDone
  /\ selectedPolygonCoords = <<<<Num(2, 1), Num(1, 1)>>, <<Num(5, 0), Num(5, 0)>>, <<Num(2, 1), Num(1, 1)>>>>
  /\ center.val[1] = Double(1, LOfNat(15), 0)

\* ---------------------------------------------------------------- render claims

\* C20: in every render of either copy, monthlyAverages is initialized before any
\* statement that refers to it is evaluated: nothing is read of it early, and no
\* render ends in a ReferenceError.
C20_InitializedBeforeRead ==
  \A copy \in Copies : render[copy].early = {} /\ render[copy].outcome # "ReferenceError"

\* what does hold: the copy in src/components/AnalysisHistoryModal.tsx initializes
\* monthlyAverages first, and every one of its renders completes
TsxInitializesFirst ==
  /\ render["tsx"].early = {} /\ render["tsx"].outcome # "ReferenceError"
  /\ render["tsx"].pc > 1 => render["tsx"].initialized

\* the copy in src/unnamed/part_000 never gets past its first statement with const
\* kept, and with const lowered to var its dependency list holds undefined
Part000ReadsEarly ==
  render["part_000"].pc > 1 => (lowering = "var" /\ render["part_000"].early = {"exportToCSV"})

\* ---------------------------------------------------------------- map scenario

MaxCalls == 2     \* calls of one asynchronous handler waiting at their await
MaxLayers == 2    \* layers drawn on the map

\* the variables the map scenario leaves alone: the bookkeeping of the geometry
\* scenario and the render of the comparative analysis
aggRest == <<buckets, bucketsTsx, aggDone, aggStep, viewVars, renderVars>>
idleVars == <<geoKind, geoDone, wkt, wktItems, coords, geoJson, wktLocation, center, aggRest, ecosystems,
              historicoVars>>
drawVars == <<featureGroupRef, drawnItemsCount, removing>>
analyzerVars == <<polygonDataForAnalysis, isAnalyzerModalOpen>>
selectionVars == <<selectedEcosystem, locationName, selectedPolygonCoords, geocodedMarker, mapCenter, geocodeCalls>>
historyVars == <<historicalImages, selectedEcosystemForHistory, selectedImage, isLoadingHistory, viewHistoryCalls,
                 isAnalysisHistoryModalOpen>>

\* the ecosystems of the map scenario and the values of its selector
MapEcosystems == Ecosystems \cup {Humedal}
MapSelectorValues == SelectorValues \cup {<<"3">>}

\* the location of the first ecosystem in the map scenario
LagunaLocation == <<"S","R","I","D","=","4","3","2","6",";","P","O","L","Y","G","O","N"," ","(","(","1","0"," ","2","0",","," ","3","0"," ","4","0",","," ","1","0"," ","2","0",")",")">>

ImageOf(id, ecosystem, date) ==
  [id |-> id, ecosystem |-> ecosystem, capture_date |-> date,
   vegetation_percentage |-> Num(1, 1), water_percentage |-> Num(2, 1)]

\* the records the images endpoint holds: two of the first ecosystem, one of the third
AllImages == <<ImageOf(1, 1, Date(2024, 1)), ImageOf(2, 3, Date(2024, 1)), ImageOf(3, 1, Date(2024, 2))>>

\* what await fetchAllImages() gives: the parsed body, or a throw (a rejected fetch,
\* a response that is not ok, a body that is no JSON)
ImageResponses == {Some(AllImages), null}

\* the rings the draw control draws, as (lat, lng) vertices
DrawnRings == {ExampleSquare, <<<<Num(2, 1), Num(1, 1)>>, <<Num(4, 1), Num(3, 1)>>, <<Num(2, 1), Num(5, 1)>>>>}

\* the dialogs are modal: the map and the side panel answer only when none is open
NoDialogOpen == activeModal = "null" /\ ~isAnalysisHistoryModalOpen /\ ~isAnalyzerModalOpen

\* {selectedPolygonCoords && selectedEcosystem && (<Polygon>...<Popup>...)}
PopupShown == selectedPolygonCoords # <<>> /\ ~selectedEcosystem.isNull

isActionEnabled == drawnItemsCount > 0

RemoveAt(seq, i) == [j \in 1..(Len(seq) - 1) |-> IF j < i THEN seq[j] ELSE seq[j + 1]]

\* layer.toGeoJSON() of a polygon layer: the ring as (lng, lat) positions, closed
layerToGeoJSON(layer) ==
  [hasGeometry |-> TRUE,
   geometry |-> Geometry("Polygon", TRUE,
                         <<[i \in 1..(Len(layer.latlngs) + 1) |->
                              swapOf(layer.latlngs[IF i > Len(layer.latlngs) THEN 1 ELSE i])]>>)]

\* featureGroupRef.current.toGeoJSON()
toGeoJSON(layers) == [hasFeatures |-> TRUE, features |-> [i \in 1..Len(layers) |-> layerToGeoJSON(layers[i])]]

getCurrentDrawnPolygon(ref) ==
  IF ~ref.current THEN null
  ELSE Some([geoJson |-> toGeoJSON(ref.layers),
             wktLocation |-> convertToWKT(toGeoJSON(ref.layers)),
             drawnItemsCount |-> Len(ref.layers)])

\* a || b || "Nueva Área de Análisis" on names, "" being the missing one
NameOr(a, b) == IF a # "" THEN a ELSE IF b # "" THEN b ELSE "Nueva Area de Analisis"

\* option?.name and option?.id.toString() || "new"
nameOf(option) == IF option.isNull THEN "" ELSE option.val.name
idTextOf(option) == IF option.isNull THEN <<"n","e","w">> ELSE NumberToString(Num(option.val.id, 0))

\* { ...polygonData, locationName, ecosystemId }
analysisDataOf(polygonData, name, id) ==
  [geoJson |-> polygonData.geoJson, wktLocation |-> polygonData.wktLocation,
   drawnItemsCount |-> polygonData.drawnItemsCount, locationName |-> name, ecosystemId |-> id]

\* setPolygonDataForAnalysis(analysisData); setIsAnalyzerModalOpen(true)
\* a faulty variant of noPolygon, for comparison: only a missing feature group is refused
noPolygonAbsentOnly(polygonData) == polygonData.isNull

\* if (!polygonData || polygonData.drawnItemsCount === 0) { toast.error(...); return }
noPolygon(polygonData) == polygonData.isNull \/ polygonData.val.drawnItemsCount = 0

openAnalyzer(polygonData, name, id) ==
  IF noPolygon(polygonData)
  THEN UNCHANGED analyzerVars
  ELSE /\ polygonDataForAnalysis' = Some(analysisDataOf(polygonData.val, name, id))
       /\ isAnalyzerModalOpen' = TRUE

InitMap ==
  /\ geoKind = "map"
  /\ wkt = LagunaLocation
  /\ wktItems = NoItems
  /\ selectedPolygonCoords = <<>>
  /\ featureGroupRef \in {[current |-> c, layers |-> <<>>] : c \in BOOLEAN}
  /\ geoJson = NoGeoJson
  /\ InitGeoState
  /\ AggIdle
  /\ PageIdle
  /\ ecosystems = MapEcosystems

\* whether handleEcosystemSelect(ecosystemId) asks geocodeLocationByName: the
\* ecosystem is found and has no location
Geocodes(ecosystemId) ==
  /\ ecosystemId # <<"n","o","n","e">>
  /\ \E ecosystem \in findEcosystem(ecosystemId) : locationOf(ecosystem) = <<>>

\* handleEcosystemSelect(ecosystemId) up to its return or to await geocodeLocationByName
handleEcosystemSelectToAwait(ecosystemId) ==
  /\ lastHandler' = "handleEcosystemSelectToAwait"
  /\ NoDialogOpen
  /\ featureGroupRef' = IF featureGroupRef.current THEN [featureGroupRef EXCEPT !.layers = <<>>] ELSE featureGroupRef
  /\ drawnItemsCount' = IF featureGroupRef.current THEN 0 ELSE drawnItemsCount
  /\ IF Geocodes(ecosystemId)
     THEN \E ecosystem \in findEcosystem(ecosystemId) :
            /\ selectedEcosystem' = Some(ecosystem)
            /\ locationName' = ecosystem.name
            /\ geocodedMarker' = null
            /\ selectedPolygonCoords' = <<>>
            /\ geocodeCalls' = Append(geocodeCalls, ecosystem)
            /\ UNCHANGED mapCenter
     ELSE /\ \E after \in IF ecosystemId = <<"n","o","n","e">>
                           THEN {Selection(null, "", <<>>, null, null)}
                           ELSE selectFound(findEcosystem(ecosystemId)) :
               /\ selectedEcosystem' = after.selectedEcosystem
               /\ locationName' = after.locationName
               /\ selectedPolygonCoords' = after.selectedPolygonCoords
               /\ geocodedMarker' = after.geocodedMarker
               /\ mapCenter' = after.mapCenter
          /\ UNCHANGED geocodeCalls
  /\ UNCHANGED <<removing, analyzerVars, historyVars, activeModal, idleVars>>

\* handleEcosystemSelect after await geocodeLocationByName(ecosystem.name), for the
\* i-th waiting call and the answer it got
handleEcosystemSelectAfterAwait(i, geocodedCoords) ==
  /\ lastHandler' = "handleEcosystemSelectAfterAwait"
  /\ i \in 1..Len(geocodeCalls)
  /\ mapCenter' = geocodedCoords
  /\ geocodedMarker' = IF geocodedCoords.isNull THEN geocodedMarker ELSE geocodedCoords
  /\ geocodeCalls' = RemoveAt(geocodeCalls, i)
  /\ UNCHANGED <<selectedEcosystem, locationName, selectedPolygonCoords>>
  /\ UNCHANGED <<drawVars, analyzerVars, historyVars, activeModal, idleVars>>

\* a faulty variant of updateDrawnItemsCount, for comparison: the count is left as it was
updateDrawnItemsCountSkipped(ref) == drawnItemsCount

\* drawnItemsCount after updateDrawnItemsCount(), for the feature group as it is then
updateDrawnItemsCount(ref) == IF ref.current THEN Len(ref.layers) ELSE drawnItemsCount

\* _onCreated of DrawControl: the draw control has finished a shape
_onCreated(latlngs) ==
  /\ lastHandler' = "_onCreated"
  /\ NoDialogOpen
  /\ featureGroupRef.current
  /\ Len(featureGroupRef.layers) < MaxLayers
  /\ featureGroupRef' = [featureGroupRef EXCEPT !.layers = Append(@, LPolygon(latlngs))]
  /\ drawnItemsCount' = updateDrawnItemsCount(featureGroupRef')
  /\ UNCHANGED <<removing, analyzerVars, selectionVars, historyVars, activeModal, idleVars>>

\* _onEdited of DrawControl: the edit tool has saved a new shape of the i-th layer
_onEdited(i, latlngs) ==
  /\ lastHandler' = "_onEdited"
  /\ NoDialogOpen
  /\ featureGroupRef.current
  /\ i \in 1..Len(featureGroupRef.layers)
  /\ featureGroupRef.layers[i] # LPolygon(latlngs)
  /\ featureGroupRef' = [featureGroupRef EXCEPT !.layers[i] = LPolygon(latlngs)]
  /\ drawnItemsCount' = updateDrawnItemsCount(featureGroupRef')
  /\ UNCHANGED <<removing, analyzerVars, selectionVars, historyVars, activeModal, idleVars>>

\* the remove tool of EditControl (edit.remove) takes the i-th layer off the group;
\* the callback runs when the removal is saved
EditControlRemove(i) ==
  /\ lastHandler' = "EditControlRemove"
  /\ NoDialogOpen
  /\ featureGroupRef.current
  /\ i \in 1..Len(featureGroupRef.layers)
  /\ featureGroupRef' = [featureGroupRef EXCEPT !.layers = RemoveAt(@, i)]
  /\ removing' = TRUE
  /\ UNCHANGED <<drawnItemsCount, analyzerVars, selectionVars, historyVars, activeModal, idleVars>>

\* _onDeleted of DrawControl: the removal is saved
_onDeleted ==
  /\ lastHandler' = "_onDeleted"
  /\ NoDialogOpen
  /\ removing
  /\ removing' = FALSE
  /\ drawnItemsCount' = updateDrawnItemsCount(featureGroupRef)
  /\ UNCHANGED <<featureGroupRef, analyzerVars, selectionVars, historyVars, activeModal, idleVars>>

\* the Crear Nuevo Análisis button of the polygon popup:
\* handleCreateNewAnalysisFromPolygon(selectedEcosystem, selectedPolygonCoords)
CreateNewAnalysisFromPopup ==
  /\ lastHandler' = "handleCreateNewAnalysisFromPolygon"
  /\ NoDialogOpen
  /\ PopupShown
  /\ createNewAnalysisFromPolygon(selectedEcosystem.val, selectedPolygonCoords)
  /\ UNCHANGED <<removing, selectionVars, historyVars, activeModal, idleVars>>

\* the Analizar button of the side panel
handleAnalyzeClick ==
  /\ lastHandler' = "handleAnalyzeClick"
  /\ NoDialogOpen
  /\ isActionEnabled
  /\ openAnalyzer(getCurrentDrawnPolygon(featureGroupRef),
                  IF selectedEcosystem.isNull THEN NameOr(locationName, "") ELSE NameOr(selectedEcosystem.val.name, ""),
                  idTextOf(selectedEcosystem))
  /\ UNCHANGED <<drawVars, selectionVars, historyVars, activeModal, idleVars>>

\* the Nuevo Análisis button of the side panel
handleCreateNewAnalysis ==
  /\ lastHandler' = "handleCreateNewAnalysis"
  /\ NoDialogOpen
  /\ isActionEnabled
  /\ openAnalyzer(getCurrentDrawnPolygon(featureGroupRef), NameOr(locationName, nameOf(selectedEcosystem)),
                  idTextOf(selectedEcosystem))
  /\ UNCHANGED <<drawVars, selectionVars, historyVars, activeModal, idleVars>>

\* onCreateNewAnalysis of the history list
handleCreateNewAnalysisFromHistory ==
  /\ lastHandler' = "handleCreateNewAnalysisFromHistory"
  /\ activeModal = "history"
  /\ openAnalyzer(getCurrentDrawnPolygon(featureGroupRef), NameOr(nameOf(selectedEcosystemForHistory), locationName),
                  idTextOf(selectedEcosystemForHistory))
  /\ activeModal' = IF noPolygon(getCurrentDrawnPolygon(featureGroupRef)) THEN activeModal ELSE "null"
  /\ UNCHANGED <<drawVars, selectionVars, historyVars, idleVars>>

\* onClose of PhotoAnalyzerModal
handleCloseAnalyzerModal ==
  /\ lastHandler' = "handleCloseAnalyzerModal"
  /\ isAnalyzerModalOpen
  /\ isAnalyzerModalOpen' = FALSE
  /\ polygonDataForAnalysis' = null
  /\ UNCHANGED <<drawVars, selectionVars, historyVars, activeModal, idleVars>>

\* handleViewHistory(ecosystemId) up to await fetchAllImages(), which has set
\* isLoadingHistory before its own await
handleViewHistoryToAwait(ecosystemId) ==
  /\ lastHandler' = "handleViewHistoryToAwait"
  /\ NoDialogOpen
  /\ \E ecosystem \in {eco \in ecosystems : eco.id = ecosystemId} :
       selectedEcosystemForHistory' = Some(ecosystem)
  /\ isLoadingHistory' = TRUE
  /\ viewHistoryCalls' = Append(viewHistoryCalls, ecosystemId)
  /\ UNCHANGED <<historicalImages, selectedImage, isAnalysisHistoryModalOpen, activeModal>>
  /\ UNCHANGED <<drawVars, analyzerVars, selectionVars, idleVars>>

\* image => image.ecosystem === ecosystemId
imagesOfEcosystem(allImages, ecosystemId) == SelectSeq(allImages, LAMBDA image : image.ecosystem = ecosystemId)

\* handleViewHistory after await fetchAllImages(), for the i-th waiting call and the
\* answer it got; the finally of fetchAllImages runs on both ways out
handleViewHistoryAfterAwait(i, allImages) ==
  /\ lastHandler' = "handleViewHistoryAfterAwait"
  /\ i \in 1..Len(viewHistoryCalls)
  /\ isLoadingHistory' = FALSE
  /\ IF allImages.isNull
     THEN UNCHANGED <<historicalImages, activeModal>>
     ELSE /\ historicalImages' = imagesOfEcosystem(allImages.val, viewHistoryCalls[i])
          /\ activeModal' = "history"
  /\ viewHistoryCalls' = RemoveAt(viewHistoryCalls, i)
  /\ UNCHANGED <<selectedEcosystemForHistory, selectedImage, isAnalysisHistoryModalOpen>>
  /\ UNCHANGED <<drawVars, analyzerVars, selectionVars, idleVars>>

\* onViewDetail of the history list
handleViewHistoricalDetail(image) ==
  /\ lastHandler' = "handleViewHistoricalDetail"
  /\ activeModal = "history"
  /\ selectedImage' = Some(image)
  /\ activeModal' = "imageDetail"
  /\ UNCHANGED <<historicalImages, selectedEcosystemForHistory, isLoadingHistory, viewHistoryCalls,
                 isAnalysisHistoryModalOpen>>
  /\ UNCHANGED <<drawVars, analyzerVars, selectionVars, idleVars>>

\* onViewComparativeAnalysis of the history list; the button is rendered only when
\* historicalImages.length > 1
handleViewComparativeAnalysis ==
  /\ lastHandler' = "handleViewComparativeAnalysis"
  /\ activeModal = "history"
  /\ Len(historicalImages) > 1
  /\ activeModal' = "null"
  /\ isAnalysisHistoryModalOpen' = TRUE
  /\ UNCHANGED <<historicalImages, selectedEcosystemForHistory, selectedImage, isLoadingHistory, viewHistoryCalls>>
  /\ UNCHANGED <<drawVars, analyzerVars, selectionVars, idleVars>>

\* onClose of the history list, the image detail and the comparative analysis
closeAllModals ==
  /\ lastHandler' = "closeAllModals"
  /\ activeModal # "null" \/ isAnalysisHistoryModalOpen
  /\ activeModal' = "null"
  /\ selectedImage' = null
  /\ isAnalysisHistoryModalOpen' = FALSE
  /\ UNCHANGED <<historicalImages, selectedEcosystemForHistory, isLoadingHistory, viewHistoryCalls>>
  /\ UNCHANGED <<drawVars, analyzerVars, selectionVars, idleVars>>

\* the map, its side panel and its dialogs, with at most one call of each
\* asynchronous handler waiting
NextMap ==
  \/ \E ecosystemId \in MapSelectorValues :
       (Geocodes(ecosystemId) => geocodeCalls = <<>>) /\ handleEcosystemSelectToAwait(ecosystemId)
  \/ \E geocodedCoords \in GeocodedPlaces : handleEcosystemSelectAfterAwait(1, geocodedCoords)
  \/ \E latlngs \in DrawnRings : _onCreated(latlngs)
  \/ \E i \in 1..MaxLayers, latlngs \in DrawnRings : _onEdited(i, latlngs)
  \/ \E i \in 1..MaxLayers : EditControlRemove(i)
  \/ _onDeleted
  \/ CreateNewAnalysisFromPopup
  \/ handleAnalyzeClick
  \/ handleCreateNewAnalysis
  \/ handleCreateNewAnalysisFromHistory
  \/ handleCloseAnalyzerModal
  \/ PopupShown /\ viewHistoryCalls = <<>> /\ handleViewHistoryToAwait(selectedEcosystem.val.id)
  \/ \E allImages \in ImageResponses : handleViewHistoryAfterAwait(1, allImages)
  \/ \E i \in 1..Len(historicalImages) : handleViewHistoricalDetail(historicalImages[i])
  \/ handleViewComparativeAnalysis
  \/ closeAllModals

SpecMap == InitMap /\ [][NextMap]_vars

\* the selector and the history dialogs, with up to MaxCalls calls of each
\* asynchronous handler waiting and nothing drawn
NextHistory ==
  \/ \E ecosystemId \in MapSelectorValues :
       (Geocodes(ecosystemId) => Len(geocodeCalls) < MaxCalls) /\ handleEcosystemSelectToAwait(ecosystemId)
  \/ \E i \in 1..MaxCalls, geocodedCoords \in GeocodedPlaces : handleEcosystemSelectAfterAwait(i, geocodedCoords)
  \/ PopupShown /\ Len(viewHistoryCalls) < MaxCalls /\ handleViewHistoryToAwait(selectedEcosystem.val.id)
  \/ \E i \in 1..MaxCalls, allImages \in ImageResponses : handleViewHistoryAfterAwait(i, allImages)
  \/ \E i \in 1..Len(historicalImages) : handleViewHistoricalDetail(historicalImages[i])
  \/ handleViewComparativeAnalysis
  \/ closeAllModals

SpecHistory == InitMap /\ [][NextHistory]_vars

\* ---------------------------------------------------------------- history claims

\* the history list is rendered open
HistoryListShown == activeModal = "history"

\* C21: whenever the history list is shown, every record of historicalImages has
\* ecosystem equal to selectedEcosystemForHistory.id, under any interleaving of
\* handleViewHistory calls and the completions of their fetches.
C21_NoStaleHistory ==
  HistoryListShown =>
    /\ ~selectedEcosystemForHistory.isNull
    /\ \A i \in 1..Len(historicalImages) :
         historicalImages[i].ecosystem = selectedEcosystemForHistory.val.id

\* the list is never shown with the records of Laguna under the name of Humedal
LagunaListedAsHumedal ==
  ~(/\ HistoryListShown
    /\ selectedEcosystemForHistory = Some(Humedal)
    /\ historicalImages = imagesOfEcosystem(AllImages, 1))

\* the dialogs of the history that are rendered open
OpenHistoryDialogs ==
  {d \in {"history", "imageDetail"} : activeModal = d}
    \cup (IF isAnalysisHistoryModalOpen THEN {"analysis"} ELSE {})

\* C22: at most one of the history list, the image detail and the comparative
\* analysis is open, after any sequence of handleViewHistory (with its completion),
\* handleViewHistoricalDetail, handleViewComparativeAnalysis and closeAllModals.
C22_AtMostOneDialog == Cardinality(OpenHistoryDialogs) <= 1

\* the list does not reopen under the comparative analysis
ListStaysClosedUnderAnalysis == [][~(isAnalysisHistoryModalOpen /\ activeModal = "null" /\ activeModal' = "history")]_vars

\* handleViewComparativeAnalysis itself closes the list and opens the analysis
ComparativeAnalysisClosesList ==
  [][(activeModal = "history" /\ isAnalysisHistoryModalOpen' /\ ~isAnalysisHistoryModalOpen)
       => activeModal' = "null"]_vars

\* C23: whenever the comparative analysis is open, historicalImages holds more than
\* one record, so the bucket sequence the modal computes from it is not empty.
C23_AnalysisHasImagesToCompare ==
  isAnalysisHistoryModalOpen =>
    /\ Len(historicalImages) > 1
    /\ monthlyAverages(historicalImages) # <<>>

\* when handleViewComparativeAnalysis opens the analysis there is more than one record
AnalysisOpenedWithImagesToCompare ==
  [][(isAnalysisHistoryModalOpen' /\ ~isAnalysisHistoryModalOpen) => Len(historicalImages') > 1]_vars

\* ---------------------------------------------------------------- selection claims

\* mapCenter and geocodedMarker as the claim gives them for the selected ecosystem:
\* the centroid and no marker for a location that parses, the answer of
\* geocodeLocationByName for both where there is no location
MapMatches(ecosystem, parsed) ==
  IF locationOf(ecosystem) # <<>>
  THEN IF parsed.isNull THEN mapCenter = null /\ geocodedMarker = null
       ELSE mapCenter = Some(getPolygonCenter(parsed.val)) /\ geocodedMarker = null
  ELSE mapCenter \in GeocodedPlaces /\ geocodedMarker = mapCenter

\* C24: once no geocoding request is pending, mapCenter and geocodedMarker match the
\* selected ecosystem: both null with none selected, the centroid of its polygon
\* for one with a location that parses, its geocoded position otherwise.
C24_MapMatchesSelection ==
  geocodeCalls = <<>> =>
    IF selectedEcosystem.isNull THEN mapCenter = null /\ geocodedMarker = null
    ELSE MapMatches(selectedEcosystem.val, parseWKTPolygon(locationOf(selectedEcosystem.val)))

\* the map is never left on a geocoded place with no ecosystem selected
GeocodedPlaceWithNoneSelected ==
  ~(geocodeCalls = <<>> /\ selectedEcosystem.isNull /\ ~mapCenter.isNull)

\* the map is never left on a geocoded place with Laguna, which has a polygon, selected
GeocodedPlaceUnderPolygon ==
  ~(/\ geocodeCalls = <<>>
    /\ selectedEcosystem = Some([id |-> 1, name |-> "Laguna"])
    /\ selectedPolygonCoords # <<>>
    /\ ~mapCenter.isNull /\ mapCenter \in GeocodedPlaces)

\* ---------------------------------------------------------------- drawing claims

\* the handlers that add, remove or clear drawn layers: the callbacks of the draw
\* control, the selection of an ecosystem and the new analysis from its polygon
LayerHandlers ==
  {"_onCreated", "_onEdited", "_onDeleted", "handleEcosystemSelectToAwait", "handleCreateNewAnalysisFromPolygon"}

\* C25: after each handler that adds, removes or clears drawn layers,
\* drawnItemsCount is the number of layers of the feature group, so the Analizar
\* and Nuevo Análisis buttons are enabled exactly when there is a layer.
C25_CountMatchesLayers ==
  lastHandler \in LayerHandlers =>
    /\ drawnItemsCount = Len(featureGroupRef.layers)
    /\ isActionEnabled <=> featureGroupRef.layers # <<>>

\* one of two layers has been removed and the removal saved: the count is 1
C25_Witness ==
  /\ lastHandler = "_onDeleted"
  /\ Len(featureGroupRef.layers) = 1
  /\ drawnItemsCount = 1

\* between the remove tool taking a layer off and the removal being saved the
\* count is the old one
CountMatchesLayersAlways == drawnItemsCount = Len(featureGroupRef.layers)

\* ---------------------------------------------------------------- analyzer claims

\* the handlers that open the analyzer for what is drawn
DrawnAnalysisHandlers == {"handleAnalyzeClick", "handleCreateNewAnalysis", "handleCreateNewAnalysisFromHistory"}

\* the feature group is absent or holds no layer
NothingDrawn == ~featureGroupRef.current \/ featureGroupRef.layers = <<>>

\* a step of one of the three handlers with nothing drawn leaves the analyzer and
\* the history dialogs as they were
RefusedWithNothingDrawn ==
  (lastHandler' \in DrawnAnalysisHandlers /\ NothingDrawn)
    => UNCHANGED <<isAnalyzerModalOpen, polygonDataForAnalysis, activeModal>>

\* the analyzer is open only on data of at least one polygon
AnalyzerHasPolygon ==
  isAnalyzerModalOpen =>
    /\ ~polygonDataForAnalysis.isNull
    /\ polygonDataForAnalysis.val.drawnItemsCount >= 1
    /\ Len(polygonDataForAnalysis.val.geoJson.features) >= 1

\* C26: with the feature group absent or empty, handleAnalyzeClick,
\* handleCreateNewAnalysis and handleCreateNewAnalysisFromHistory leave
\* isAnalyzerModalOpen, polygonDataForAnalysis and activeModal unchanged; hence
\* whenever the analyzer is open polygonDataForAnalysis is non-null and built from
\* at least one layer.
C26_AnalysisNeedsPolygon == [][RefusedWithNothingDrawn]_vars /\ []AnalyzerHasPolygon

\* handleAnalyzeClick has run with the button still enabled and the group emptied
\* by the remove tool: nothing opened
C26_Witness ==
  /\ lastHandler = "handleAnalyzeClick"
  /\ featureGroupRef.current
  /\ featureGroupRef.layers = <<>>
  /\ isActionEnabled
  /\ ~isAnalyzerModalOpen
  /\ polygonDataForAnalysis = null

\* handleCreateNewAnalysisFromHistory has run with no feature group: the list stays
\* open and nothing else opens
RefusedFromHistory ==
  /\ lastHandler = "handleCreateNewAnalysisFromHistory"
  /\ ~featureGroupRef.current
  /\ activeModal = "history"
  /\ ~isAnalyzerModalOpen

\* handleCreateNewAnalysisFromHistory has run with a layer drawn: the analyzer is
\* open on it and the list is closed
OpenedFromHistory ==
  /\ lastHandler = "handleCreateNewAnalysisFromHistory"
  /\ isAnalyzerModalOpen
  /\ activeModal = "null"
  /\ polygonDataForAnalysis.val.drawnItemsCount = Len(featureGroupRef.layers)
  /\ polygonDataForAnalysis.val.locationName = selectedEcosystemForHistory.val.name

\* ---------------------------------------------------------------- historico scenario

\* what a fetch settles to: a rejection, or a response that is ok or not, with a body
\* that is a list or no JSON (null)
Rejected == [state |-> "rejected", ok |-> FALSE, body |-> null]
Response(ok, body) == [state |-> "fulfilled", ok |-> ok, body |-> body]

EcosystemBodies ==
  {null, Some(<<>>), Some(<<[id |-> 1, name |-> "Laguna"]>>),
   Some(<<[id |-> 1, name |-> "Laguna"], [id |-> 2, name |-> "Presa"]>>)}
ImageBodies == {null, Some(<<>>), Some(<<ImageOf(1, 1, Date(2024, 1))>>), Some(AllImages)}

Settlements(bodies) == {Rejected, Response(FALSE, null)} \cup {Response(TRUE, body) : body \in bodies}

\* a faulty variant of setTimeout, for comparison: the callback is dropped
setTimeoutDropped(pending) == pending

\* setTimeout(callback, 2500): one more callback is to run
setTimeout(pending) == pending + 1

\* a faulty variant of loadingInFinally, for comparison: nothing is set
loadingLeft == loading

\* finally { setLoading(false) }
loadingInFinally == FALSE

\* a faulty variant of ecosystemsAtFirstBody, for comparison: setEcosystems is called
\* as soon as the first body is read
ecosystemsSetEarly(data) == data

\* historicoEcosystems after const ecosystemData = await ecoRes.json(): not set yet
ecosystemsAtFirstBody(data) == historicoEcosystems

\* catch (error) { showModalError("Error al obtener los datos del sistema") }
\* finally { setLoading(false) }
catchAndFinally ==
  /\ modalError' = "Error al obtener los datos del sistema"
  /\ timeouts' = setTimeout(timeouts)
  /\ loading' = loadingInFinally
  /\ fetchData' = "returned"
  /\ UNCHANGED <<historicoEcosystems, historicoImages, ecoRes, imgRes, ecosystemData, route>>

InitHistorico ==
  /\ GeoIdle
  /\ AggIdle
  /\ PageIdle
  /\ ecosystems = Ecosystems

\* useEffect(() => { fetchData() }, []): fetchData runs to await Promise.all([...])
\* with both fetches started
useEffect ==
  /\ fetchData = "notCalled"
  /\ fetchData' = "Promise.all"
  /\ UNCHANGED <<historicoEcosystems, historicoImages, loading, modalError, ecoRes, imgRes, ecosystemData,
                 timeouts, route>>
  /\ UNCHANGED <<geoVars, aggVars, mapPageVars>>

\* fetch(API_ECOSYSTEMS) settles
fetchEcosystemsSettles(settlement) ==
  /\ fetchData # "notCalled"
  /\ ecoRes = Pending
  /\ ecoRes' = settlement
  /\ UNCHANGED <<historicoEcosystems, historicoImages, loading, modalError, fetchData, imgRes, ecosystemData,
                 timeouts, route>>
  /\ UNCHANGED <<geoVars, aggVars, mapPageVars>>

\* fetch(API_IMAGES) settles
fetchImagesSettles(settlement) ==
  /\ fetchData # "notCalled"
  /\ imgRes = Pending
  /\ imgRes' = settlement
  /\ UNCHANGED <<historicoEcosystems, historicoImages, loading, modalError, fetchData, ecoRes, ecosystemData,
                 timeouts, route>>
  /\ UNCHANGED <<geoVars, aggVars, mapPageVars>>

\* fetchData after await Promise.all: it rejects as soon as one fetch is rejected and
\* is fulfilled when both are; then if (!ecoRes.ok || !imgRes.ok) throw
fetchDataAfterPromiseAll ==
  /\ fetchData = "Promise.all"
  /\ \/ /\ ecoRes.state = "rejected" \/ imgRes.state = "rejected"
        /\ catchAndFinally
     \/ /\ ecoRes.state = "fulfilled" /\ imgRes.state = "fulfilled"
        /\ IF ~ecoRes.ok \/ ~imgRes.ok
           THEN catchAndFinally
           ELSE /\ fetchData' = "ecoRes.json"
                /\ UNCHANGED <<historicoEcosystems, historicoImages, loading, modalError, ecoRes, imgRes,
                               ecosystemData, timeouts, route>>
  /\ UNCHANGED <<geoVars, aggVars, mapPageVars>>

\* fetchData after const ecosystemData = await ecoRes.json()
fetchDataAfterEcoJson ==
  /\ fetchData = "ecoRes.json"
  /\ IF ecoRes.body.isNull
     THEN catchAndFinally
     ELSE /\ ecosystemData' = ecoRes.body
          /\ historicoEcosystems' = ecosystemsAtFirstBody(ecoRes.body.val)
          /\ fetchData' = "imgRes.json"
          /\ UNCHANGED <<historicoImages, loading, modalError, ecoRes, imgRes, timeouts, route>>
  /\ UNCHANGED <<geoVars, aggVars, mapPageVars>>

\* fetchData after const imagesData = await imgRes.json(): setEcosystems, setImages
\* and the finally
fetchDataAfterImgJson ==
  /\ fetchData = "imgRes.json"
  /\ IF imgRes.body.isNull
     THEN catchAndFinally
     ELSE /\ historicoEcosystems' = ecosystemData.val
          /\ historicoImages' = imgRes.body.val
          /\ loading' = loadingInFinally
          /\ fetchData' = "returned"
          /\ UNCHANGED <<modalError, ecoRes, imgRes, ecosystemData, timeouts, route>>
  /\ UNCHANGED <<geoVars, aggVars, mapPageVars>>

\* the callback showModalError gave setTimeout runs:
\* setModalError(null); router.push("/mapa-panel")
showModalErrorTimeout ==
  /\ timeouts > 0
  /\ timeouts' = timeouts - 1
  /\ modalError' = "null"
  /\ route' = "/mapa-panel"
  /\ UNCHANGED <<historicoEcosystems, historicoImages, loading, fetchData, ecoRes, imgRes, ecosystemData>>
  /\ UNCHANGED <<geoVars, aggVars, mapPageVars>>

NextHistorico ==
  \/ useEffect
  \/ \E settlement \in Settlements(EcosystemBodies) : fetchEcosystemsSettles(settlement)
  \/ \E settlement \in Settlements(ImageBodies) : fetchImagesSettles(settlement)
  \/ fetchDataAfterPromiseAll
  \/ fetchDataAfterEcoJson
  \/ fetchDataAfterImgJson
  \/ showModalErrorTimeout

SpecHistorico == InitHistorico /\ [][NextHistorico]_vars

\* the effect runs after the first render, every fetch settles, the event loop
\* resumes fetchData after each await and runs the callback of setTimeout
SpecHistoricoFair ==
  /\ SpecHistorico
  /\ WF_vars(useEffect)
  /\ WF_vars(\E settlement \in Settlements(EcosystemBodies) : fetchEcosystemsSettles(settlement))
  /\ WF_vars(\E settlement \in Settlements(ImageBodies) : fetchImagesSettles(settlement))
  /\ WF_vars(fetchDataAfterPromiseAll)
  /\ WF_vars(fetchDataAfterEcoJson)
  /\ WF_vars(fetchDataAfterImgJson)
  /\ WF_vars(showModalErrorTimeout)

\* ---------------------------------------------------------------- historico claims

\* both fetches gave a response
BothFulfilled == ecoRes.state = "fulfilled" /\ imgRes.state = "fulfilled"

\* fetchData fails: a fetch is rejected, or of the two responses one is not ok or
\* has a body that is no JSON
Failing ==
  \/ ecoRes.state = "rejected"
  \/ imgRes.state = "rejected"
  \/ BothFulfilled /\ (~ecoRes.ok \/ ~imgRes.ok \/ ecoRes.body.isNull \/ imgRes.body.isNull)

Succeeding == BothFulfilled /\ ~Failing

ReturnedToMap == modalError = "null" /\ route = "/mapa-panel"

\* C27: every failure of fetchData sets modalError and is eventually followed by
\* modalError cleared and the navigation to /mapa-panel; there is no navigation to
\* /mapa-panel without a failure before it.
C27_ReturnOnError ==
  /\ (Failing /\ fetchData # "returned") ~> (modalError # "null")
  /\ [][(fetchData # "returned" /\ fetchData' = "returned" /\ Failing) => modalError' # "null"]_vars
  /\ Failing ~> ReturnedToMap
  /\ [](route = "/mapa-panel" => Failing)

\* a body that is no JSON has led back to the map
C27_Witness ==
  /\ BothFulfilled /\ ecoRes.ok /\ imgRes.ok
  /\ imgRes.body.isNull
  /\ ReturnedToMap

\* the error is shown while the callback waits
ErrorShown == modalError # "null" /\ timeouts = 1 /\ route = "/historico" /\ ~loading

\* C28: once fetchData has started, loading eventually becomes false, whether the
\* fetches succeed or fail, and it never becomes true again.
C28_LoadingEnds ==
  /\ (fetchData # "notCalled") ~> ~loading
  /\ [][~loading => ~loading']_vars

\* loading has ended on a rejected fetch while the other fetch is still pending
C28_Witness ==
  /\ ~loading
  /\ ecoRes.state = "rejected"
  /\ imgRes = Pending

\* loading has ended on two bodies
LoadingEndedOnSuccess == ~loading /\ Succeeding /\ fetchData = "returned"

\* C29: on any failure ecosystems and images keep their empty value; they are set
\* only together, from one pair of successful responses.
C29_BothOrNeither ==
  /\ Failing => (historicoEcosystems = <<>> /\ historicoImages = <<>>)
  /\ (historicoEcosystems # <<>> \/ historicoImages # <<>> \/ (fetchData = "returned" /\ ~Failing))
       => /\ Succeeding
          /\ fetchData = "returned"
          /\ historicoEcosystems = ecoRes.body.val
          /\ historicoImages = imgRes.body.val

\* the ecosystems came and the body of the images was no JSON: neither is set
C29_Witness ==
  /\ fetchData = "returned"
  /\ BothFulfilled /\ ecoRes.ok /\ imgRes.ok
  /\ ~ecoRes.body.isNull /\ ecoRes.body.val # <<>>
  /\ imgRes.body.isNull
  /\ historicoEcosystems = <<>> /\ historicoImages = <<>>

\* both are set from the two bodies
BothSet ==
  /\ fetchData = "returned"
  /\ historicoEcosystems # <<>> /\ historicoImages # <<>>
  /\ historicoEcosystems = ecoRes.body.val /\ historicoImages = imgRes.body.val

=============================================================================
